---- MODULE Spec2Model ----
(***************************************************************************)
(* A model of the API gateway (api-gateway/src): the route table and its   *)
(* matcher, the proxy's upstream selection with its per-backend cursor and *)
(* per-server connection counters, and the health checker's registry with  *)
(* its probe rounds, and the rate limiter with its two stores.             *)
(*                                                                         *)
(* Strings that the code inspects character by character (route patterns   *)
(* and request paths) are sequences of one-character strings.  Wall-clock  *)
(* fields of the health records (last_check, response_time_ms) are left    *)
(* out: no modelled decision reads them.  The limiter's clock counts ticks *)
(* of which Resolution make one emission interval of the configured quota  *)
(* (60 s / default_requests_per_minute).                                   *)
(***************************************************************************)
EXTENDS Integers, Sequences, FiniteSets

VARIABLES
    routes,          \* config.routes: the declared route table (immutable after load)
    match,           \* the route lookup observed by the matcher's specification
    health_status,   \* HealthChecker.health_status: backend key -> ServiceHealth
    phase,           \* the health task: "idle" between ticks, "probing" inside one
    pending,         \* probes of the current tick that have not completed yet
    ticks,           \* ticks of the health task so far
    probe_log,       \* history: per (backend, server index) the probe outcomes so far
    backend_states,  \* ProxyService.backend_states: backend key -> BackendState
    req,             \* the request tasks in flight, one slot per task
    started,         \* requests accepted so far
    marks,           \* calls of ProxyService::update_server_health so far
    sel_log,         \* history: selections and health marks, in order
    rate_limiting,   \* config.rate_limiting (immutable after load)
    now,             \* the clock, in ticks
    memory_limiters, \* RateLimiter.memory_limiters: client id -> keyed limiter
    redis_counts,    \* the Redis store: window key -> counter
    chk,             \* the calls of check_rate_limit in progress, one slot per task
    lim_log,         \* the limiter's debug log: one line per decision
    auth,            \* config.auth (immutable after load)
    gw,              \* the request on its way through the layers of the router
    events,          \* what has happened to that request, in order
    arrived,         \* requests accepted by the listener so far
    metrics,         \* MetricsCollector: the counters and the custom metric "errors"
    uuids,           \* calls of Uuid::new_v4 so far; the n-th call returns the id n
    perm,            \* the call of AuthService::validate_permissions observed
    writer,          \* the probe result being written under the registry's write lock
    reader,          \* a reader of the registry: what it has copied of one record
    handlers         \* concurrent proxy_handler tasks: position, counted, errors recorded

routeVars  == <<routes, match>>
lockVars   == <<writer, reader>>
healthVars == <<health_status, phase, pending, ticks, lockVars>>
proxyVars  == <<backend_states, req, started, marks>>
histVars   == <<probe_log, sel_log>>
limVars    == <<rate_limiting, now, memory_limiters, redis_counts, chk, lim_log>>
pipeVars   == <<gw, events, arrived, metrics, uuids>>
authVars   == <<auth, perm, handlers>>
gateVars   == <<limVars, authVars>>
vars       == <<routes, match, health_status, phase, pending, ticks, probe_log,
                backend_states, req, started, marks, sel_log,
                rate_limiting, now, memory_limiters, redis_counts, chk, lim_log,
                auth, gw, events, arrived, metrics, uuids, perm, writer, reader, handlers>>

-----------------------------------------------------------------------------
(* Bounds of the model *)

MaxLen      == 2    \* longest route pattern and request path drawn for the matcher
MaxRoutes   == 2    \* longest route table drawn for the matcher
MaxTicks    == 5    \* ticks of the health task (health checker alone)
JointTicks  == 1    \* ticks of the health task (whole gateway)
MaxInflight == 2    \* request tasks alive at the same time
JointRequests == 2  \* requests accepted (whole gateway)
MaxRequests == 3    \* requests accepted (proxy alone, concurrent tasks)
SeqRequests == 12   \* requests accepted (sequential round-robin runs)
MaxMarks    == 1    \* calls of ProxyService::update_server_health
WrrRequests == 6    \* requests accepted (sequential weighted-round-robin runs)
Resolution  == 2    \* ticks of the clock per emission interval of the quota
MaxQuota    == 2    \* largest default_requests_per_minute drawn for the limiter
MaxBurst    == 2    \* largest burst_size drawn for the limiter
MaxNow      == 5    \* ticks of the clock (local limiter)
RedisNow    == 2    \* ticks of the clock (distributed limiter)
MaxForwarded == 3   \* longest X-Forwarded-For value drawn, in characters
MetricsArrivals == 3 \* requests entering proxy_handler while the counters are observed
QuotaArrivals  == 2 \* requests sent through the layers at one instant
BucketChecks   == 3 \* checks started while the client's entry is observed
BucketNow      == 1 \* latest time of such a check
RegistryTicks  == 2 \* probe rounds while the registry's lock is observed
CursorRequests == 4 \* requests accepted while the cursor is observed
MaxPerms    == 2    \* longest list of permissions drawn for the permission check
MaxArrivals == 1    \* requests accepted by the listener (layers of the router)
MaxChecks   == 4    \* calls of check_rate_limit (local limiter)
RedisChecks == 3    \* calls of check_rate_limit (distributed limiter)

\* The values that replace a zero quota and a zero burst (rate_limiter.rs)
DefaultQuota == 60
DefaultBurst == 10

None == "None"

-----------------------------------------------------------------------------
(* Configuration: config.rs.  Two backends.  "b1" has three servers, its   *)
(* display name equals its map key and its health check is enabled with    *)
(* the thresholds of the default configuration.  "b2" has one server, a    *)
(* display name different from its key (as both backends of               *)
(* default_config have) and its health check disabled.                     *)

Backends == {"b1", "b2"}

BackendConfig(b) ==
    IF b = "b1"
    THEN [name |-> "b1", servers |-> <<"A", "B", "C">>,
          health_check |-> [enabled |-> TRUE, healthy_threshold |-> 2,
                            unhealthy_threshold |-> 3]]
    ELSE [name |-> "Backend Two", servers |-> <<"D">>,
          health_check |-> [enabled |-> FALSE, healthy_threshold |-> 2,
                            unhealthy_threshold |-> 3]]

Strategies == {"RoundRobin", "LeastConnections", "Random", "WeightedRoundRobin"}

Route(path, method, backend, lb) ==
    [path |-> path, method |-> method, backend |-> backend, load_balancing |-> lb]

\* The route table of the modelled configuration:
\*   /a*  any method  -> b1, round robin
\*   /b   post        -> b1, least connections
\*   /c*  any method  -> b2, round robin
ConfigRoutes ==
    << Route(<<"/", "a", "*">>, None, "b1", "RoundRobin"),
       Route(<<"/", "b">>, "post", "b1", "LeastConnections"),
       Route(<<"/", "c", "*">>, None, "b2", "RoundRobin") >>

\* config.rate_limiting
RateLimiting(q, b, storage) ==
    [enabled |-> TRUE, default_requests_per_minute |-> q, burst_size |-> b,
     storage |-> storage]

ConfigRateLimiting == RateLimiting(2, 1, "memory")

\* config.auth
Auth(enabled) ==
    [enabled |-> enabled, jwt_secret |-> "secret", api_key_header |-> "X-API-Key",
     bypass_paths |-> << <<"/", "h", "e", "a", "l", "t", "h">>, <<"/", "c", "*">> >>]

ConfigAuth == Auth(TRUE)

\* The client ids of the limiter's callers (middleware.rs, extract_client_id)
Clients == { <<"ip:", <<"7">>>>, <<"unknown", <<>>>> }

\* Requests the clients send: (method, path)
RequestMethods == {"GET", "POST"}
RequestPaths   == { <<"/", "a", "x">>, <<"/", "b">>, <<"/", "c">>, <<"/", "d">> }

-----------------------------------------------------------------------------
(* Route matching: proxy.rs, find_matching_route and path_matches *)

\* str::ends_with("*")
ends_with_star(s) == Len(s) > 0 /\ s[Len(s)] = "*"

\* str::starts_with(prefix), byte by byte
starts_with(s, prefix) ==
    /\ Len(prefix) <= Len(s)
    /\ \A k \in 1..Len(prefix) : s[k] = prefix[k]

\* A slip of the matcher: a '*' pattern compared like any other pattern.
path_matches_literal(pattern, path) == pattern = path

path_matches(pattern, path) ==
    IF ends_with_star(pattern)
    THEN starts_with(path, SubSeq(pattern, 1, Len(pattern) - 1))
    ELSE pattern = path

\* The loop of find_matching_route from route k on: the index of the first
\* route whose pattern matches, 0 for Err("No matching route found").
RECURSIVE route_scan(_, _, _)
route_scan(rts, path, k) ==
    IF k > Len(rts) THEN 0
    ELSE IF path_matches(rts[k].path, path) THEN k
    ELSE route_scan(rts, path, k + 1)

\* A slip of the loop: it keeps going and returns the last matching route.
RECURSIVE route_scan_last(_, _, _)
route_scan_last(rts, path, k) ==
    IF k < 1 THEN 0
    ELSE IF path_matches(rts[k].path, path) THEN k
    ELSE route_scan_last(rts, path, k - 1)

find_matching_route_last(rts, path) == route_scan_last(rts, path, Len(rts))

find_matching_route(rts, path) == route_scan(rts, path, 1)

\* Strings over the matcher's alphabet, up to MaxLen characters, and the
\* patterns and paths made of them: a '/' and such a string
Alphabet == {"a", "*"}
Tails    == UNION { [1..n -> Alphabet] : n \in 0..MaxLen }
Strings  == { <<"/">> \o t : t \in Tails }

\* Route tables drawn for the matcher: any patterns, in any order
RouteTables ==
    UNION { [1..n -> { Route(p, None, "b1", "RoundRobin") : p \in Strings }]
            : n \in 0..MaxRoutes }

NoMatch == [called |-> FALSE, method |-> None, path |-> <<>>, result |-> 0]

\* ProxyService::proxy_request, line 84: the route lookup of one request.  The
\* request's method is not an argument of find_matching_route.
MatchRoute(method, path) ==
    /\ match' = [called |-> TRUE, method |-> method, path |-> path,
                 result |-> find_matching_route(routes, path)]
    /\ UNCHANGED <<routes, healthVars, proxyVars, histVars, gateVars>>

-----------------------------------------------------------------------------
(* Health registry: health.rs *)

Statuses == {"Healthy", "Unhealthy", "Unknown"}

\* HealthChecker::new, the record built for one server
InitServerHealth(url) ==
    [url |-> url, status |-> "Unknown",
     consecutive_failures |-> 0, consecutive_successes |-> 0]

\* HealthChecker::new, the registry: one ServiceHealth per configured backend
InitHealthStatus ==
    [b \in Backends |->
        [servers |-> [k \in 1..Len(BackendConfig(b).servers) |->
                         InitServerHealth(BackendConfig(b).servers[k])],
         overall_status |-> "Unknown"]]

\* A slip of the update: a success leaves the failure count standing.
probe_update_keeps_failures(rec, is_healthy) ==
    IF is_healthy
    THEN [rec EXCEPT !.status = "Healthy",
                     !.consecutive_successes = @ + 1]
    ELSE [rec EXCEPT !.status = "Unhealthy",
                     !.consecutive_failures = @ + 1,
                     !.consecutive_successes = 0]

\* update_server_health, lines 201-209: what one probe result does to a record
probe_update(rec, is_healthy) ==
    IF is_healthy
    THEN [rec EXCEPT !.status = "Healthy",
                     !.consecutive_successes = @ + 1,
                     !.consecutive_failures = 0]
    ELSE [rec EXCEPT !.status = "Unhealthy",
                     !.consecutive_failures = @ + 1,
                     !.consecutive_successes = 0]

\* The index of the first record of `servers` whose url is `url`, 0 when none
\* (the `for ... if server.url == url ... break` loops of both registries)
RECURSIVE first_with_url(_, _, _)
first_with_url(servers, url, k) ==
    IF k > Len(servers) THEN 0
    ELSE IF servers[k].url = url THEN k
    ELSE first_with_url(servers, url, k + 1)

\* A slip of the update: the loop does not stop at the server probed and the
\* result is written to every record of the backend.
update_server_health_every(hs, backend_name, server_url, is_healthy) ==
    IF backend_name \notin DOMAIN hs THEN hs
    ELSE [hs EXCEPT ![backend_name].servers =
             [k \in DOMAIN @ |-> probe_update(@[k], is_healthy)]]

\* HealthChecker::update_server_health: the registry after one probe result
update_server_health(hs, backend_name, server_url, is_healthy) ==
    IF backend_name \notin DOMAIN hs THEN hs
    ELSE LET k == first_with_url(hs[backend_name].servers, server_url, 1)
         IN  IF k = 0 THEN hs
             ELSE [hs EXCEPT ![backend_name].servers[k] = probe_update(@, is_healthy)]

\* update_service_health_status: the overall status of one backend
overall_status_of(service_health, healthy_threshold) ==
    LET healthy_servers ==
            Cardinality({ k \in 1..Len(service_health.servers) :
                /\ service_health.servers[k].status = "Healthy"
                /\ service_health.servers[k].consecutive_successes >= healthy_threshold })
    IN  IF healthy_servers = 0 THEN "Unhealthy" ELSE "Healthy"

\* HealthChecker::update_service_health_status, over every configured backend
update_service_health_status(hs) ==
    [b \in DOMAIN hs |->
        [hs[b] EXCEPT !.overall_status =
            overall_status_of(hs[b], BackendConfig(b).health_check.healthy_threshold)]]

\* HealthChecker::is_server_healthy: what a reader of the registry is told
is_server_healthy(hs, backend_name, server_url) ==
    IF backend_name \notin DOMAIN hs THEN FALSE
    ELSE LET k == first_with_url(hs[backend_name].servers, server_url, 1)
         IN  k # 0 /\ hs[backend_name].servers[k].status = "Healthy"

\* perform_health_checks, lines 103-117: the probes one tick issues
ProbesOfTick ==
    { <<b, k>> \in Backends \X (1..3) :
        /\ BackendConfig(b).health_check.enabled
        /\ k <= Len(BackendConfig(b).servers) }

\* start_health_checks / perform_health_checks: a tick issues every probe
TickStart ==
    /\ phase = "idle"
    /\ phase' = "probing"
    /\ pending' = ProbesOfTick
    /\ ticks' = ticks + 1
    /\ UNCHANGED <<health_status, lockVars, routeVars, proxyVars, gateVars>>

\* check_server_health: one probe completes, with a 2xx answer (ok) or with
\* anything else, and its result is written to the registry
ProbeComplete(b, k, ok) ==
    /\ phase = "probing"
    /\ <<b, k>> \in pending
    /\ pending' = pending \ {<<b, k>>}
    /\ health_status' =
         update_server_health(health_status, b, BackendConfig(b).servers[k], ok)
    /\ UNCHANGED <<phase, ticks, lockVars, routeVars, proxyVars, gateVars>>

\* perform_health_checks, lines 120-123: every probe of the tick is back
TickEnd ==
    /\ phase = "probing"
    /\ pending = {}
    /\ phase' = "idle"
    /\ health_status' = update_service_health_status(health_status)
    /\ UNCHANGED <<pending, ticks, lockVars, routeVars, proxyVars, gateVars>>

InitProbeLog == [p \in ProbesOfTick |-> <<>>]

\* The same write and a reader's copy step by step, under the registry's
\* RwLock (health_status: Arc<RwLock<HashMap<..>>>).
NoWriter == [active |-> FALSE, backend |-> "b1", server |-> 1, healthy |-> FALSE]

NoReader == [stage |-> "none", backend |-> "b1", server |-> 1, status |-> "Unknown",
             consecutive_failures |-> 0, consecutive_successes |-> 0]

\* A slip of the lock: the writer takes it as readers do, shared with them.
may_write_shared(w, r) == ~w.active

\* RwLock::write is granted when no writer and no reader holds the lock
may_write(w, r) == ~w.active /\ r.stage # "status"

\* RwLock::read is granted when no writer holds the lock
may_read(w) == ~w.active

\* update_server_health, lines 188, 201-207: a probe's result is in, the
\* write lock is taken and the status is assigned
WriteBegin(b, k, ok) ==
    /\ phase = "probing"
    /\ <<b, k>> \in pending
    /\ may_write(writer, reader)
    /\ pending' = pending \ {<<b, k>>}
    /\ writer' = [active |-> TRUE, backend |-> b, server |-> k, healthy |-> ok]
    /\ health_status' =
         [health_status EXCEPT ![b].servers[k].status =
             IF ok THEN "Healthy" ELSE "Unhealthy"]
    /\ probe_log' = [probe_log EXCEPT ![<<b, k>>] = Append(@, ok)]
    /\ UNCHANGED <<phase, ticks, reader, routeVars, proxyVars, gateVars, sel_log, pipeVars>>

\* update_server_health, lines 203-208 and the end of the function: the
\* counters are assigned and the write lock is dropped
WriteEnd ==
    /\ writer.active
    /\ health_status' =
         [health_status EXCEPT ![writer.backend].servers[writer.server] =
             probe_update(@, writer.healthy)]
    /\ writer' = NoWriter
    /\ UNCHANGED <<phase, pending, ticks, reader, routeVars, proxyVars, gateVars,
                   histVars, pipeVars>>

\* get_health_status, line 251: the read lock is taken and the clone of a
\* record begins with its status
ReadBegin(b, k) ==
    /\ reader.stage # "status"
    /\ may_read(writer)
    /\ reader' = [NoReader EXCEPT !.stage = "status", !.backend = b, !.server = k,
                      !.status = health_status[b].servers[k].status]
    /\ UNCHANGED <<health_status, phase, pending, ticks, writer, routeVars, proxyVars,
                   gateVars, histVars, pipeVars>>

\* get_health_status: the clone is completed with the counters and the read
\* lock is dropped
ReadEnd ==
    /\ reader.stage = "status"
    /\ LET rec == health_status[reader.backend].servers[reader.server]
       IN  reader' = [reader EXCEPT
                         !.stage = "done",
                         !.consecutive_failures = rec.consecutive_failures,
                         !.consecutive_successes = rec.consecutive_successes]
    /\ UNCHANGED <<health_status, phase, pending, ticks, writer, routeVars, proxyVars,
                   gateVars, histVars, pipeVars>>

\* update_service_health_status, line 223: it takes the write lock too
LockedTickEnd ==
    /\ may_write(writer, reader)
    /\ TickEnd
    /\ UNCHANGED <<histVars, pipeVars>>

\* A probe step of the health task together with its entry in the history
LoggedProbe ==
    \E p \in ProbesOfTick, ok \in BOOLEAN :
        /\ ProbeComplete(p[1], p[2], ok)
        /\ probe_log' = [probe_log EXCEPT ![p] = Append(@, ok)]
        /\ UNCHANGED <<sel_log, pipeVars>>

-----------------------------------------------------------------------------
(* Proxy: proxy.rs *)

\* ProxyService::new: every server starts with healthy = true and no connection
InitBackendStates ==
    [b \in Backends |->
        [servers |-> [k \in 1..Len(BackendConfig(b).servers) |->
                         [url |-> BackendConfig(b).servers[k],
                          healthy |-> TRUE, connections |-> 0]],
         current_index |-> 0]]

\* select_server, lines 196-200: the healthy servers in their original order,
\* each given by its index in the backend's server list
RECURSIVE healthy_from(_, _)
healthy_from(servers, k) ==
    IF k > Len(servers) THEN <<>>
    ELSE IF servers[k].healthy THEN <<k>> \o healthy_from(servers, k + 1)
    ELSE healthy_from(servers, k + 1)

\* A slip of the filter: with no healthy server left, every server is offered.
healthy_servers_or_all(bs) ==
    IF healthy_from(bs.servers, 1) = <<>>
    THEN [k \in 1..Len(bs.servers) |-> k]
    ELSE healthy_from(bs.servers, 1)

healthy_servers(bs) == healthy_from(bs.servers, 1)

\* A slip of round robin: the cursor is reduced modulo the whole server list.
round_robin_pick_all(bs, healthy) ==
    (bs.current_index % Len(bs.servers)) + 1

\* select_server, lines 207-210: healthy[index % len], index
\* being the cursor's value before fetch_add
round_robin_pick(bs, healthy) ==
    healthy[(bs.current_index % Len(healthy)) + 1]

\* A slip of the weighted strategy: a weighting invented for it, the first
\* healthy server being given two turns of every round.
weighted_round_robin_pick_doubled(bs, healthy) ==
    LET turn == bs.current_index % (Len(healthy) + 1)
    IN  healthy[IF turn = 0 THEN 1 ELSE turn]

\* select_server, lines 222-226: the WeightedRoundRobin arm, "for now, same
\* as round robin"
weighted_round_robin_pick(bs, healthy) ==
    healthy[(bs.current_index % Len(healthy)) + 1]

\* select_server, lines 211-216: Iterator::min_by_key returns the first of
\* several equally minimal elements
least_connections_pick(bs, healthy) ==
    LET conn(j) == bs.servers[healthy[j]].connections
        j == CHOOSE j \in DOMAIN healthy :
                /\ \A l \in DOMAIN healthy : conn(j) <= conn(l)
                /\ \A l \in 1..(j - 1) : conn(l) > conn(j)
    IN  healthy[j]

\* select_server, lines 206-227: the servers the strategy may pick
picks(strategy, bs, healthy) ==
    CASE strategy = "RoundRobin"         -> { round_robin_pick(bs, healthy) }
      [] strategy = "LeastConnections"   -> { least_connections_pick(bs, healthy) }
      [] strategy = "Random"             -> { healthy[j] : j \in DOMAIN healthy }
      [] strategy = "WeightedRoundRobin" -> { weighted_round_robin_pick(bs, healthy) }

\* A slip of the cursor: it is kept within the server list's length.
advance_cursor_wrapping(strategy, bs) ==
    IF strategy \in {"RoundRobin", "WeightedRoundRobin"}
    THEN [bs EXCEPT !.current_index = (@ + 1) % Len(bs.servers)]
    ELSE bs

\* fetch_add(1) on the cursor, by the two round-robin strategies only
advance_cursor(strategy, bs) ==
    IF strategy \in {"RoundRobin", "WeightedRoundRobin"}
    THEN [bs EXCEPT !.current_index = @ + 1]
    ELSE bs

IdleReq == [pc |-> "idle", route |-> 0, state |-> None, server |-> 0, status |-> 0,
            error |-> None]

\* The errors proxy_request returns, named by the start of their messages
\* (lines 175, 88, 194, 203) and, for the errors of reqwest's send (line
\* 132), by their kind
ProxyErrors ==
    { "No matching route found", "Backend not found", "Backend state not found",
      "No healthy servers available", "error sending request", "operation timed out" }

FailedReq(r, e) ==
    [pc |-> "done", route |-> r, state |-> None, server |-> 0, status |-> 502,
     error |-> e]

\* The slot a new request task takes: the lowest free one
FreeSlot(i) ==
    /\ req[i].pc = "idle"
    /\ \A j \in 1..(i - 1) : req[j].pc # "idle"

\* proxy_handler and proxy_request up to the pick of select_server (lines
\* 84-227): the route lookup, the backend lookup, the lookup of the backend's
\* state by the backend's name, the healthy filter and the strategy's pick.
\* Every failure ends the request with 502 (main.rs, line 225).  After a pick
\* the task holds the read lock of backend_states.
SelectPick(i, method, path) ==
    /\ FreeSlot(i)
    /\ started' = started + 1
    /\ LET r == find_matching_route(routes, path)
       IN  IF r = 0
           THEN /\ req' = [req EXCEPT ![i] = FailedReq(0, "No matching route found")]
                /\ UNCHANGED backend_states
           ELSE
           LET b    == routes[r].backend
               name == IF b \in Backends THEN BackendConfig(b).name ELSE None
           IN  IF b \notin Backends \/ name \notin DOMAIN backend_states
               THEN /\ req' = [req EXCEPT ![i] =
                                FailedReq(r, IF b \notin Backends
                                             THEN "Backend not found"
                                             ELSE "Backend state not found")]
                    /\ UNCHANGED backend_states
               ELSE
               LET bs      == backend_states[name]
                   healthy == healthy_servers(bs)
               IN  IF healthy = <<>>
                   THEN /\ req' = [req EXCEPT ![i] =
                                    FailedReq(r, "No healthy servers available")]
                        /\ UNCHANGED backend_states
                   ELSE \E k \in picks(routes[r].load_balancing, bs, healthy) :
                        /\ req' = [req EXCEPT ![i] =
                                     [pc |-> "picked", route |-> r, state |-> name,
                                      server |-> k, status |-> 0, error |-> None]]
                        /\ backend_states' =
                             [backend_states EXCEPT ![name] =
                                 advance_cursor(routes[r].load_balancing, bs)]
    /\ UNCHANGED <<marks, routeVars, healthVars, gateVars>>

\* select_server, lines 229-232: the selected server's connection count goes
\* up by one, the read lock is released and the upstream request is sent
CountConnection(i) ==
    /\ req[i].pc = "picked"
    /\ backend_states' =
         [backend_states EXCEPT ![req[i].state].servers[req[i].server].connections = @ + 1]
    /\ req' = [req EXCEPT ![i].pc = "upstream"]
    /\ UNCHANGED <<started, marks, routeVars, healthVars, gateVars>>

UpstreamOutcomes == {"ok", "error", "timeout"}

\* A slip of the proxy: a failed or timed-out upstream call puts the request
\* back before its selection, to be sent again.
UpstreamDoneRetry(i, outcome) ==
    /\ req[i].pc = "upstream"
    /\ req' = IF outcome = "ok"
              THEN [req EXCEPT ![i].pc = "done", ![i].status = 200]
              ELSE [req EXCEPT ![i] = IdleReq]
    /\ UNCHANGED <<backend_states, started, marks, routeVars, healthVars, gateVars>>

\* proxy_request, lines 132-165, and proxy_handler, lines 213-227: the upstream
\* answers (the response keeps its status, here 200), or the call fails or
\* times out (502).  No counter is touched.
UpstreamDone(i, outcome) ==
    /\ req[i].pc = "upstream"
    /\ req' = [req EXCEPT ![i].pc = "done",
                          ![i].status = IF outcome = "ok" THEN 200 ELSE 502,
                          ![i].error = CASE outcome = "ok"      -> None
                                         [] outcome = "error"   -> "error sending request"
                                         [] outcome = "timeout" -> "operation timed out"]
    /\ UNCHANGED <<backend_states, started, marks, routeVars, healthVars, gateVars>>

\* The client disconnects while the upstream call is awaited: the task is
\* dropped and no response is sent (status 0).  Dropping the future runs no
\* code of the proxy.
Cancel(i) ==
    /\ req[i].pc = "upstream"
    /\ req' = [req EXCEPT ![i].pc = "done", ![i].status = 0]
    /\ UNCHANGED <<backend_states, started, marks, routeVars, healthVars, gateVars>>

\* The request task ends
Finish(i) ==
    /\ req[i].pc = "done"
    /\ req' = [req EXCEPT ![i] = IdleReq]
    /\ UNCHANGED <<backend_states, started, marks, routeVars, healthVars, gateVars>>

\* ProxyService::update_server_health (lines 235-250), under the write lock:
\* no selection is between its pick and its count
MarkServer(b, url, healthy) ==
    /\ \A i \in DOMAIN req : req[i].pc # "picked"
    /\ marks' = marks + 1
    /\ LET k == IF b \in DOMAIN backend_states
                THEN first_with_url(backend_states[b].servers, url, 1) ELSE 0
       IN  backend_states' =
             IF k = 0 THEN backend_states
             ELSE [backend_states EXCEPT ![b].servers[k].healthy = healthy]
    /\ UNCHANGED <<req, started, routeVars, healthVars, gateVars>>

-----------------------------------------------------------------------------
(* Rate limiter: rate_limiter.rs *)

\* NonZeroU32::new(v).unwrap_or(d)
NonZeroOr(v, d) == IF v = 0 THEN d ELSE v

quota_per_minute(cfg) == NonZeroOr(cfg.default_requests_per_minute, DefaultQuota)

\* 60 seconds, in ticks
Minute(cfg) == Resolution * quota_per_minute(cfg)

\* A slip of the quota: allow_burst is left out, and Quota::per_minute alone
\* makes the quota's own count the burst.
quota_without_burst(cfg) ==
    [replenish_1_per |-> Minute(cfg) \div quota_per_minute(cfg),
     max_burst       |-> quota_per_minute(cfg)]

\* A slip of the quota: Quota::per_second in the place of Quota::per_minute,
\* one cell replenished every second / q.
quota_per_second(cfg) ==
    [replenish_1_per |-> (Minute(cfg) \div 60) \div quota_per_minute(cfg),
     max_burst       |-> NonZeroOr(cfg.burst_size, DefaultBurst)]

\* check_rate_limit_memory, lines 64-70: Quota::per_minute(q).allow_burst(b),
\* one cell replenished every 60 s / q, at most b cells at once
quota_of(cfg) ==
    [replenish_1_per |-> Minute(cfg) \div quota_per_minute(cfg),
     max_burst       |-> NonZeroOr(cfg.burst_size, DefaultBurst)]

\* check_rate_limit_memory, line 75: limiter.check_key at time t0, the
\* generic cell rate algorithm of the governor crate on the key's theoretical
\* arrival time (tat: <<>> for a key not seen before, else <<time>>).  A cell conforms
\* unless it comes before tat - t * max_burst; a conforming cell moves tat to
\* max(tat, t0) + t, a rejected one leaves it alone.
check_key(quota, tat, t0) ==
    LET t        == quota.replenish_1_per
        tau      == t * quota.max_burst
        cur      == IF tat = <<>> THEN t0 + t ELSE tat[1]
        earliest == IF cur > tau THEN cur - tau ELSE 0
    IN  IF t0 < earliest
        THEN [allowed |-> FALSE, tat |-> tat]
        ELSE [allowed |-> TRUE, tat |-> <<(IF cur > t0 THEN cur ELSE t0) + t>>]

\* get_current_window_start: now - now % 60
get_current_window_start(cfg, t0) == t0 - (t0 % Minute(cfg))

IdleCheck == [pc |-> "idle", client |-> None, key |-> <<>>, incr |-> 0, read |-> 0]

\* One line of the limiter's debug log (lines 77, 81, 109, 112), with the
\* replies of the store that led to it
LogLine(c, t0, window, result, inc, rd, count) ==
    [client |-> c, at |-> t0, window |-> window, result |-> result,
     incr |-> inc, read |-> rd, count |-> count]

\* The map `m` with key k set to v
Put(m, k, v) == [d \in DOMAIN m \cup {k} |-> IF d = k THEN v ELSE m[d]]

\* check_rate_limit with storage other than "redis": check_rate_limit_memory.
\* The client's limiter is created on its first check, and the check is made
\* while the entry of the map is held.
CheckMemory(i, c) ==
    /\ chk[i].pc = "idle"
    /\ rate_limiting.storage # "redis"
    /\ LET lim == IF c \in DOMAIN memory_limiters THEN memory_limiters[c]
                  ELSE [quota |-> quota_of(rate_limiting), tat |-> <<>>]
           r   == check_key(lim.quota, lim.tat, now)
           res == IF r.allowed THEN "Ok" ELSE "Exceeded"
       IN  /\ memory_limiters' = Put(memory_limiters, c, [lim EXCEPT !.tat = r.tat])
           /\ chk' = [chk EXCEPT ![i] = [IdleCheck EXCEPT !.pc = res, !.client = c]]
           /\ lim_log' = Append(lim_log, LogLine(c, now, 0, res, 0, 0, 0))
    /\ UNCHANGED <<rate_limiting, now, redis_counts>>

\* The same check step by step.  DashMap::entry locks the key's shard and
\* looks the key up; the lock is held through or_insert_with and check_key,
\* until the entry is dropped when the function returns.
EntryHeld(i) == chk[i].pc \in {"vacant", "occupied"}

\* A slip of the map: the key is looked up without the shard's lock.
may_enter_unlocked(i, c) == TRUE

\* The shard's lock is free of every other task working on this key
may_enter(i, c) ==
    \A j \in DOMAIN chk : (j # i /\ EntryHeld(j)) => chk[j].client # c

\* check_rate_limit_memory, line 63: memory_limiters.entry(client_id)
EntryMemory(i, c) ==
    /\ chk[i].pc = "idle"
    /\ rate_limiting.storage # "redis"
    /\ may_enter(i, c)
    /\ chk' = [chk EXCEPT ![i] =
                 [IdleCheck EXCEPT !.client = c,
                    !.pc = IF c \in DOMAIN memory_limiters THEN "occupied" ELSE "vacant"]]
    /\ UNCHANGED <<rate_limiting, now, memory_limiters, redis_counts, lim_log>>

\* Lines 63-73: or_insert_with on a vacant entry builds the client's limiter
OrInsertWith(i) ==
    /\ chk[i].pc = "vacant"
    /\ memory_limiters' = Put(memory_limiters, chk[i].client,
                              [quota |-> quota_of(rate_limiting), tat |-> <<>>])
    /\ chk' = [chk EXCEPT ![i].pc = "occupied"]
    /\ lim_log' = Append(lim_log, LogLine(chk[i].client, now, 0, "Created", 0, 0, 0))
    /\ UNCHANGED <<rate_limiting, now, redis_counts>>

\* Lines 75-84: limiter.check_key, the decision, and the entry is dropped
CheckKey(i) ==
    /\ chk[i].pc = "occupied"
    /\ LET c   == chk[i].client
           lim == memory_limiters[c]
           r   == check_key(lim.quota, lim.tat, now)
           res == IF r.allowed THEN "Ok" ELSE "Exceeded"
       IN  /\ memory_limiters' = [memory_limiters EXCEPT ![c].tat = r.tat]
           /\ chk' = [chk EXCEPT ![i].pc = res]
           /\ lim_log' = Append(lim_log, LogLine(c, now, 0, res, 0, 0, 0))
    /\ UNCHANGED <<rate_limiting, now, redis_counts>>

\* check_rate_limit with storage "redis", lines 88-96: a connection of its
\* own for this check, or InternalError when the store cannot be reached; the
\* window key is made of the client id and the current window's start
RedisConnect(i, c, reachable) ==
    /\ chk[i].pc = "idle"
    /\ rate_limiting.storage = "redis"
    /\ IF reachable
       THEN /\ chk' = [chk EXCEPT ![i] =
                         [IdleCheck EXCEPT !.pc = "connected", !.client = c,
                            !.key = <<c, get_current_window_start(rate_limiting, now)>>]]
            /\ UNCHANGED lim_log
       ELSE /\ chk' = [chk EXCEPT ![i] =
                         [IdleCheck EXCEPT !.pc = "InternalError", !.client = c]]
            /\ lim_log' = Append(lim_log, LogLine(c, now, 0, "InternalError", 0, 0, 0))
    /\ UNCHANGED <<rate_limiting, now, memory_limiters, redis_counts>>

\* The store executes the pipeline's INCR: the commands of a pipeline are
\* executed one by one, and commands of other connections may come in between
RedisIncr(i) ==
    /\ chk[i].pc = "connected"
    /\ LET old == IF chk[i].key \in DOMAIN redis_counts THEN redis_counts[chk[i].key] ELSE 0
       IN  /\ redis_counts' = Put(redis_counts, chk[i].key, old + 1)
           /\ chk' = [chk EXCEPT ![i].pc = "incremented", ![i].incr = old + 1]
    /\ UNCHANGED <<rate_limiting, now, memory_limiters, lim_log>>

\* Lines 99-106: the pipeline's replies are INCR's and GET's (EXPIRE's is
\* ignored), and they are decoded into the one-element tuple (i32,).  The
\* decoder is the redis crate's: it may refuse a reply list of another length
\* than the tuple's (a type error), or fill the tuple from either reply.
decode_count(replies) ==
    { [ok |-> FALSE, count |-> 0] }
        \cup { [ok |-> TRUE, count |-> replies[k]] : k \in DOMAIN replies }

\* Lines 108-114: the comparison of the count with the quota
compare_count(cfg, count) ==
    IF count > cfg.default_requests_per_minute THEN "Exceeded" ELSE "Ok"

\* The replies to the pipeline of check i once the store has executed its GET
Replies(i) ==
    IF chk[i].key \in DOMAIN redis_counts
    THEN <<chk[i].incr, redis_counts[chk[i].key]>> ELSE <<>>

\* The store executes the pipeline's EXPIRE and GET, the replies come back
\* and the check decides (lines 99-114).  The key's time to live is not
\* modelled: a key holds its window's start, and is not read after its window.
RedisGet(i, d) ==
    /\ chk[i].pc = "incremented"
    /\ LET rd  == redis_counts[chk[i].key]
           res == IF d.ok THEN compare_count(rate_limiting, d.count) ELSE "InternalError"
       IN  /\ d \in decode_count(Replies(i))
           /\ chk' = [chk EXCEPT ![i].pc = res, ![i].read = rd]
           /\ lim_log' = Append(lim_log,
                  LogLine(chk[i].client, now, chk[i].key[2], res, chk[i].incr, rd,
                          IF d.ok THEN d.count ELSE 0))
    /\ UNCHANGED <<rate_limiting, now, memory_limiters, redis_counts>>

\* Line 106: the query fails (the connection is lost before the replies are
\* in), whatever the store has executed by then
RedisQueryFail(i) ==
    /\ chk[i].pc \in {"connected", "incremented"}
    /\ chk' = [chk EXCEPT ![i].pc = "InternalError"]
    /\ lim_log' = Append(lim_log,
           LogLine(chk[i].client, now, chk[i].key[2], "InternalError", chk[i].incr, 0, 0))
    /\ UNCHANGED <<rate_limiting, now, memory_limiters, redis_counts>>

CheckResults == {"Ok", "Exceeded", "InternalError"}

\* check_rate_limit returns to its caller
CheckReturn(i) ==
    /\ chk[i].pc \in CheckResults
    /\ chk' = [chk EXCEPT ![i] = IdleCheck]
    /\ UNCHANGED <<rate_limiting, now, memory_limiters, redis_counts, lim_log>>

\* Time passes
Tick ==
    /\ now' = now + 1
    /\ UNCHANGED <<rate_limiting, memory_limiters, redis_counts, chk, lim_log>>

\* The calls of check_rate_limit made so far
ChecksStarted ==
    Len(lim_log) + Cardinality({ i \in DOMAIN chk : chk[i].pc \in {"connected", "incremented"} })

-----------------------------------------------------------------------------
(* Authentication: auth.rs, and the auth filter of middleware.rs *)

\* AuthService::validate_jwt_token: the signature is verified with the
\* secret, then the expiry
validate_jwt_token(token, secret) ==
    IF token.signed_with # secret THEN "InvalidToken"
    ELSE IF token.expired THEN "ExpiredToken"
    ELSE "Ok"

\* AuthService::get_valid_api_keys: the keys of the built-in store
ValidApiKeys ==
    { "ak_admin_12345678901234567890", "ak_user_09876543210987654321",
      "ak_service_11111111111111111111" }

\* AuthService::validate_api_key
validate_api_key(api_key) ==
    IF api_key \in ValidApiKeys THEN "Ok" ELSE "InvalidApiKey"

\* A slip of the check: one required permission that is held is enough.
validate_permissions_any(required_permissions, user_permissions) ==
    LET user_perms == { user_permissions[n] : n \in DOMAIN user_permissions }
    IN  \E n \in DOMAIN required_permissions : required_permissions[n] \in user_perms

\* AuthService::validate_permissions: the held permissions are collected into
\* a set and every required one is looked up in it
validate_permissions(required_permissions, user_permissions) ==
    LET user_perms == { user_permissions[n] : n \in DOMAIN user_permissions }
    IN  \A n \in DOMAIN required_permissions : required_permissions[n] \in user_perms

NoPermCheck == [called |-> FALSE, required |-> <<>>, held |-> <<>>, result |-> FALSE]

\* A caller asks whether the held permissions cover the required ones
ValidatePermissions(required, held) ==
    /\ perm' = [called |-> TRUE, required |-> required, held |-> held,
                result |-> validate_permissions(required, held)]
    /\ UNCHANGED <<auth, handlers, routeVars, healthVars, proxyVars, histVars, limVars,
                   pipeVars>>

\* headers.get(name): <<>> when the request has no such header, else <<value>>
header(headers, name) == IF name \in DOMAIN headers THEN headers[name] ELSE <<>>

\* auth_middleware, lines 82-86: the loop over the bypass list
bypassed(cfg, path) ==
    \E k \in DOMAIN cfg.bypass_paths : path_matches(cfg.bypass_paths[k], path)

\* auth_middleware, lines 91-100: a bearer token that validates
bearer_ok(cfg, headers) ==
    LET h == header(headers, "Authorization")
    IN  /\ h # <<>>
        /\ h[1].scheme = "Bearer "
        /\ validate_jwt_token(h[1].token, cfg.jwt_secret) = "Ok"

\* auth_middleware, lines 103-109: a key in the configured header that validates
api_key_ok(cfg, headers) ==
    LET h == header(headers, cfg.api_key_header)
    IN  h # <<>> /\ validate_api_key(h[1]) = "Ok"

\* A slip of the filter: a request that carries an Authorization header is
\* judged by it alone, and its API key is not looked at.
auth_middleware_bearer_first(cfg, path, headers) ==
    IF ~cfg.enabled THEN "next"
    ELSE IF bypassed(cfg, path) THEN "next"
    ELSE IF header(headers, "Authorization") # <<>>
         THEN (IF bearer_ok(cfg, headers) THEN "next" ELSE "UNAUTHORIZED")
    ELSE IF api_key_ok(cfg, headers) THEN "next"
    ELSE "UNAUTHORIZED"

\* auth_middleware: "next" when the request is handed to the next layer,
\* "UNAUTHORIZED" when it is answered 401
auth_middleware(cfg, path, headers) ==
    IF ~cfg.enabled THEN "next"
    ELSE IF bypassed(cfg, path) THEN "next"
    ELSE IF bearer_ok(cfg, headers) THEN "next"
    ELSE IF api_key_ok(cfg, headers) THEN "next"
    ELSE "UNAUTHORIZED"

-----------------------------------------------------------------------------
(* The layers of the router: main.rs and middleware.rs *)

\* A slip of the wiring: the auth layer added before the rate-limit layer.
LayersAuthFirst ==
    << "Trace", "Compression", "Cors", "Logging", "Auth", "RateLimit", "Router" >>

\* main.rs, lines 125-136: the layers of the ServiceBuilder, in the order they
\* are added, which is the order a request passes them; the router is inside
Layers ==
    << "Trace", "Compression", "Cors", "Logging", "RateLimit", "Auth", "Router" >>

\* The layers that hand every request of the modelled methods on to the next
PassLayers == {"Trace", "Compression", "Cors"}

\* extract_client_id, lines 124-130: the first comma-separated element of the
\* X-Forwarded-For value, without the blanks around it
RECURSIVE first_element(_)
first_element(s) ==
    IF s = <<>> \/ Head(s) = "," THEN <<>> ELSE <<Head(s)>> \o first_element(Tail(s))

RECURSIVE trim_start(_)
trim_start(s) == IF s # <<>> /\ Head(s) = " " THEN trim_start(Tail(s)) ELSE s

RECURSIVE trim_end(_)
trim_end(s) ==
    IF s # <<>> /\ s[Len(s)] = " " THEN trim_end(SubSeq(s, 1, Len(s) - 1)) ELSE s

trim(s) == trim_end(trim_start(s))

\* A header value with a byte that is not visible ASCII: as a key, and as a
\* character of a value given character by character
OpaqueKey  == "ak_0xFF"
OpaqueByte == "0xFF"

\* HeaderValue::to_str: <<>> (Err) for a value with a byte that is not visible
\* ASCII, else the value as text; for a key and for a sequence of characters
to_str(value) == IF value = OpaqueKey THEN <<>> ELSE <<value>>

to_str_chars(value) ==
    IF \E n \in DOMAIN value : value[n] = OpaqueByte THEN <<>> ELSE <<value>>

\* A slip of the extraction: the first element is used as it stands.
extract_client_id_untrimmed(headers) ==
    LET key == header(headers, "X-API-Key")
        fwd == header(headers, "X-Forwarded-For")
    IN  IF key # <<>> /\ to_str(key[1]) # <<>>
        THEN <<"api_key:", <<key[1]>>>>
        ELSE IF fwd # <<>> /\ to_str_chars(fwd[1]) # <<>>
        THEN <<"ip:", first_element(fwd[1])>>
        ELSE <<"unknown", <<>>>>

\* extract_client_id: the prefix and the text that follows it.  A header
\* whose value to_str refuses is passed over like an absent one.
extract_client_id(headers) ==
    LET key == header(headers, "X-API-Key")
        fwd == header(headers, "X-Forwarded-For")
    IN  IF key # <<>> /\ to_str(key[1]) # <<>>
        THEN <<"api_key:", <<key[1]>>>>
        ELSE IF fwd # <<>> /\ to_str_chars(fwd[1]) # <<>>
        THEN <<"ip:", trim(first_element(fwd[1]))>>
        ELSE <<"unknown", <<>>>>

HeaderNames == {"Authorization", "X-API-Key", "X-Forwarded-For", "X-Request-ID"}

NoHeaders == [n \in HeaderNames |-> <<>>]

coreVars == <<routeVars, healthVars, proxyVars, gateVars>>

\* MetricsCollector::new: the counters at zero, no custom metric
InitMetrics ==
    [requests_total |-> 0, errors_total |-> 0,
     errors |-> [value |-> 0, error_type |-> None]]

\* MetricsCollector::record_request: REQUEST_COUNTER.inc()
record_request(m) == [m EXCEPT !.requests_total = @ + 1]

\* MetricsCollector::record_error: ERROR_COUNTER.inc(), and the one custom
\* metric named "errors" is incremented and its label replaced
record_error(m, error_type) ==
    [m EXCEPT !.errors_total = @ + 1,
              !.errors = [value |-> @.value + 1, error_type |-> error_type]]

\* proxy_handler as concurrent tasks, each with what proxy_request returned
\* to it, whether record_request counted it and how often record_error was
\* called for it
IdleHandler == [pc |-> "idle", result |-> None, counted |-> FALSE, errors |-> 0]

\* A slip of the handler: record_request is left out on entry.
HandlerEnterUncounted(i) ==
    /\ handlers[i].pc = "idle"
    /\ handlers' = [handlers EXCEPT ![i] = [IdleHandler EXCEPT !.pc = "entered"]]
    /\ arrived' = arrived + 1
    /\ UNCHANGED <<metrics, gw, events, uuids, auth, perm, routeVars, healthVars,
                   proxyVars, histVars, limVars>>

\* proxy_handler, lines 205-208: the request is counted on entry
HandlerEnter(i) ==
    /\ handlers[i].pc = "idle"
    /\ handlers' = [handlers EXCEPT ![i] =
                      [IdleHandler EXCEPT !.pc = "entered", !.counted = TRUE]]
    /\ metrics' = record_request(metrics)
    /\ arrived' = arrived + 1
    /\ UNCHANGED <<gw, events, uuids, auth, perm, routeVars, healthVars, proxyVars,
                   histVars, limVars>>

\* proxy_handler, line 213: proxy_request returns Ok ("None": no error) or
\* one of its errors
HandlerProxied(i, result) ==
    /\ handlers[i].pc = "entered"
    /\ handlers' = [handlers EXCEPT ![i].pc = "back", ![i].result = result]
    /\ UNCHANGED <<metrics, arrived, gw, events, uuids, auth, perm, routeVars,
                   healthVars, proxyVars, histVars, limVars>>

\* proxy_handler, lines 219-222: the Err arm records the error
HandlerRecordError(i) ==
    /\ handlers[i].pc = "back"
    /\ handlers[i].result # None
    /\ handlers' = [handlers EXCEPT ![i].pc = "recorded", ![i].errors = @ + 1]
    /\ metrics' = record_error(metrics, handlers[i].result)
    /\ UNCHANGED <<arrived, gw, events, uuids, auth, perm, routeVars, healthVars,
                   proxyVars, histVars, limVars>>

\* proxy_handler returns: Ok(response), or Err(BAD_GATEWAY) after the error
\* is recorded
HandlerReturn(i) ==
    /\ \/ handlers[i].pc = "back" /\ handlers[i].result = None
       \/ handlers[i].pc = "recorded"
    /\ handlers' = [handlers EXCEPT ![i] = IdleHandler]
    /\ UNCHANGED <<metrics, arrived, gw, events, uuids, auth, perm, routeVars,
                   healthVars, proxyVars, histVars, limVars>>

\* The client disconnects while the handler awaits: the task is dropped where
\* it stands and runs no more code
HandlerDrop(i) ==
    /\ handlers[i].pc \in {"entered", "back"}
    /\ handlers' = [handlers EXCEPT ![i] = IdleHandler]
    /\ UNCHANGED <<metrics, arrived, gw, events, uuids, auth, perm, routeVars,
                   healthVars, proxyVars, histVars, limVars>>

\* The request in the stack: where it is, what it carries, and what has been
\* built for it.  request_id is the id logging_middleware logs, handler_id the
\* id its handler generates, outbound the X-Request-ID values of the upstream
\* request, response_ids those of the response, body the payload of an
\* /admin/config response, errors_before the error counter at its arrival.
IdleGw == [pc |-> "idle", layer |-> 0, method |-> None, path |-> <<>>,
           headers |-> NoHeaders, limited |-> None, authed |-> None, status |-> 0,
           request_id |-> <<>>, handler_id |-> <<>>, outbound |-> <<>>,
           response_ids |-> <<>>, body |-> <<>>, errors_before |-> 0]

\* The layer the request or its response is in
AtLayer(name) == gw.layer \in DOMAIN Layers /\ Layers[gw.layer] = name

\* The listener accepts a request and hands it to the outermost layer
Arrive(method, path, headers) ==
    /\ gw.pc = "idle"
    /\ gw' = [IdleGw EXCEPT !.pc = "in", !.layer = 1, !.method = method,
                            !.path = path, !.headers = headers,
                            !.errors_before = metrics.errors_total]
    /\ events' = <<>>
    /\ arrived' = arrived + 1
    /\ UNCHANGED <<metrics, uuids, coreVars>>

\* TraceLayer, CompressionLayer and CorsLayer on the way in: the request goes
\* on to the next layer
PassThrough ==
    /\ gw.pc = "in"
    /\ gw.layer \in DOMAIN Layers
    /\ Layers[gw.layer] \in PassLayers
    /\ gw' = [gw EXCEPT !.layer = @ + 1]
    /\ events' = Append(events, Layers[gw.layer])
    /\ UNCHANGED <<arrived, metrics, uuids, coreVars>>

\* logging_middleware, lines 17-34: a fresh id is generated, written into the
\* request's X-Request-ID header (insert replaces what was there) and logged
\* with the request's start; the request goes on to the next layer
LoggingIn ==
    /\ gw.pc = "in"
    /\ AtLayer("Logging")
    /\ uuids' = uuids + 1
    /\ gw' = [gw EXCEPT !.layer = @ + 1,
                        !.request_id = <<uuids'>>,
                        !.headers["X-Request-ID"] = <<uuids'>>]
    /\ events' = events \o <<"Logging", "log-start">>
    /\ UNCHANGED <<arrived, metrics, coreVars>>

\* rate_limit_middleware, lines 54-56: rate limiting is disabled
RateLimitSkip ==
    /\ gw.pc = "in"
    /\ AtLayer("RateLimit")
    /\ ~rate_limiting.enabled
    /\ gw' = [gw EXCEPT !.layer = @ + 1]
    /\ events' = Append(events, "RateLimit")
    /\ UNCHANGED <<arrived, metrics, uuids, coreVars>>

\* A slip of the filter: the paths that bypass authentication are not
\* limited either.
RateLimitCallExempt ==
    /\ gw.pc = "in"
    /\ AtLayer("RateLimit")
    /\ rate_limiting.enabled
    /\ gw' = IF bypassed(auth, gw.path)
             THEN [gw EXCEPT !.layer = @ + 1]
             ELSE [gw EXCEPT !.pc = "checking"]
    /\ events' = Append(events, "RateLimit")
    /\ UNCHANGED <<arrived, metrics, uuids, coreVars>>

\* rate_limit_middleware, lines 59-62: the client id is extracted and
\* check_rate_limit is called with it
RateLimitCall ==
    /\ gw.pc = "in"
    /\ AtLayer("RateLimit")
    /\ rate_limiting.enabled
    /\ gw' = [gw EXCEPT !.pc = "checking"]
    /\ events' = Append(events, "RateLimit")
    /\ UNCHANGED <<arrived, metrics, uuids, coreVars>>

\* A slip of the filter: a refused request is marked 429 and handed to the
\* next layer all the same.
RateLimitDecideCallsNext ==
    /\ gw.pc = "checking"
    /\ CheckReturn(1)
    /\ gw' = IF chk[1].pc = "Ok"
             THEN [gw EXCEPT !.pc = "in", !.layer = @ + 1, !.limited = chk[1].pc]
             ELSE [gw EXCEPT !.pc = "in", !.layer = @ + 1, !.status = 429,
                             !.limited = chk[1].pc]
    /\ events' = Append(events, "rate-decision")
    /\ UNCHANGED <<arrived, metrics, uuids, routeVars, healthVars, proxyVars, authVars>>

\* rate_limit_middleware, lines 62-67: check_rate_limit has returned; any
\* error answers the request 429, Ok(()) hands it to the next layer
RateLimitDecide ==
    /\ gw.pc = "checking"
    /\ CheckReturn(1)
    /\ gw' = IF chk[1].pc = "Ok"
             THEN [gw EXCEPT !.pc = "in", !.layer = @ + 1, !.limited = chk[1].pc]
             ELSE [gw EXCEPT !.pc = "out", !.status = 429, !.limited = chk[1].pc]
    /\ events' = Append(events, "rate-decision")
    /\ UNCHANGED <<arrived, metrics, uuids, routeVars, healthVars, proxyVars, authVars>>

\* auth_middleware: the request is handed on, or answered 401
AuthLayer ==
    /\ gw.pc = "in"
    /\ AtLayer("Auth")
    /\ gw' = IF auth_middleware(auth, gw.path, gw.headers) = "next"
             THEN [gw EXCEPT !.layer = @ + 1, !.authed = "next"]
             ELSE [gw EXCEPT !.pc = "out", !.status = 401, !.authed = "UNAUTHORIZED"]
    /\ events' = events \o <<"Auth", "auth-decision">>
    /\ UNCHANGED <<arrived, metrics, uuids, coreVars>>

\* main.rs, lines 115-118: the paths routed to the gateway's own handlers
\* (/health and /admin/config are among the requests of the model)
HealthPath == <<"/", "h", "e", "a", "l", "t", "h">>
ConfigPath == <<"/", "a", "d", "m", "i", "n", "/", "c", "o", "n", "f", "i", "g">>
AdminPaths == { HealthPath, ConfigPath }

\* config.server of the default configuration
ServerConfig == [host |-> "0.0.0.0", port |-> 8080]

\* The loaded configuration, as the handlers read it from the shared state
Config ==
    [server |-> ServerConfig, routes |-> routes,
     rate_limiting |-> rate_limiting, auth |-> auth]

\* A slip of the handler: the whole auth section is put into the payload.
config_endpoint_with_auth(config) ==
    [version |-> "1.0.0",
     server |-> [port |-> config.server.port, host |-> config.server.host],
     routes |-> Len(config.routes),
     rate_limiting |-> [enabled |-> config.rate_limiting.enabled,
                        default_limit |-> config.rate_limiting.default_requests_per_minute],
     auth |-> config.auth]

\* config_endpoint, lines 167-178: the payload built from the configuration
config_endpoint(config) ==
    [version |-> "1.0.0",
     server |-> [port |-> config.server.port, host |-> config.server.host],
     routes |-> Len(config.routes),
     rate_limiting |-> [enabled |-> config.rate_limiting.enabled,
                        default_limit |-> config.rate_limiting.default_requests_per_minute]]

\* main.rs, lines 115-118 and 149-196: a GET of one of the gateway's own
\* endpoints is answered by its handler, which generates an id of its own for
\* the body of the answer and sets no header; another method is refused by
\* the method router
RouterAdmin ==
    /\ gw.pc = "in"
    /\ AtLayer("Router")
    /\ gw.path \in AdminPaths
    /\ IF gw.method = "GET"
       THEN /\ uuids' = uuids + 1
            /\ gw' = [gw EXCEPT !.pc = "out", !.status = 200,
                                !.handler_id = <<uuids'>>,
                                !.body = IF gw.path = ConfigPath
                                         THEN <<config_endpoint(Config)>> ELSE <<>>]
       ELSE /\ gw' = [gw EXCEPT !.pc = "out", !.status = 405]
            /\ UNCHANGED uuids
    /\ events' = Append(events, "Router")
    /\ UNCHANGED <<arrived, metrics, coreVars>>

\* main.rs, lines 121-122 and 198-213: every other request goes to
\* proxy_handler, which generates an id of its own, records the request and
\* calls the proxy with that id
RouterProxy ==
    /\ gw.pc = "in"
    /\ AtLayer("Router")
    /\ gw.path \notin AdminPaths
    /\ uuids' = uuids + 1
    /\ gw' = [gw EXCEPT !.pc = "proxy", !.handler_id = <<uuids'>>]
    /\ metrics' = record_request(metrics)
    /\ events' = events \o <<"Router", "Proxy">>
    /\ UNCHANGED <<arrived, coreVars>>

\* proxy_request, lines 84-91: the route lookup and the server selection of
\* the request in the stack
ProxySelect ==
    /\ gw.pc = "proxy"
    /\ SelectPick(1, gw.method, gw.path)
    /\ events' = Append(events, "route-match")
    /\ UNCHANGED <<gw, arrived, metrics, uuids>>

\* proxy_request, lines 110-119: the X-Request-ID values of the upstream
\* request: those copied from the incoming request (X-Request-ID is not among
\* the headers left out), then the one added with the handler's id
\* (RequestBuilder::header appends)
outbound_request_ids(headers, request_id) ==
    headers["X-Request-ID"] \o request_id

\* proxy_request, lines 102-132: the upstream request is built and sent
ProxyDispatch ==
    /\ gw.pc = "proxy"
    /\ CountConnection(1)
    /\ gw' = [gw EXCEPT !.outbound = outbound_request_ids(gw.headers, gw.handler_id)]
    /\ events' = Append(events, "upstream-dispatch")
    /\ UNCHANGED <<arrived, metrics, uuids>>

\* proxy_request, lines 132-157: the upstream's answer, whose headers become
\* the response's (the upstream may send the ids it received back, or no
\* X-Request-ID at all), or the failure of the call
ProxyUpstream(outcome, echo) ==
    /\ gw.pc = "proxy"
    /\ UpstreamDone(1, outcome)
    /\ gw' = [gw EXCEPT !.response_ids =
                            IF outcome = "ok" /\ echo THEN gw.outbound ELSE <<>>]
    /\ events' = Append(events, "upstream-" \o outcome)
    /\ UNCHANGED <<arrived, metrics, uuids>>

\* proxy_handler, lines 213-227: the proxy has returned; the handler returns
\* the response, or records the error under its message and answers 502
ProxyReturn ==
    /\ gw.pc = "proxy"
    /\ Finish(1)
    /\ gw' = [gw EXCEPT !.pc = "out", !.status = req[1].status]
    /\ metrics' = IF req[1].error = None THEN metrics
                  ELSE record_error(metrics, req[1].error)
    /\ UNCHANGED <<events, arrived, uuids>>

\* The response passes the next layer on its way out (logging_middleware logs
\* the completion)
LayerOut ==
    /\ gw.pc = "out"
    /\ gw.layer > 1
    /\ gw' = [gw EXCEPT !.layer = @ - 1]
    /\ events' = IF Layers[gw.layer - 1] = "Logging"
                 THEN Append(events, "log-complete") ELSE events
    /\ UNCHANGED <<arrived, metrics, uuids, coreVars>>

\* The response leaves the outermost layer and is sent to the client
Emit ==
    /\ gw.pc = "out"
    /\ gw.layer = 1
    /\ gw' = [gw EXCEPT !.pc = "idle"]
    /\ events' = Append(events, "response-emit")
    /\ UNCHANGED <<arrived, metrics, uuids, coreVars>>

-----------------------------------------------------------------------------
(* Specifications *)

Slots == 1..MaxInflight

InitProgram ==
    /\ match = NoMatch
    /\ health_status = InitHealthStatus
    /\ phase = "idle"
    /\ pending = {}
    /\ ticks = 0
    /\ probe_log = InitProbeLog
    /\ backend_states = InitBackendStates
    /\ req = [i \in Slots |-> IdleReq]
    /\ started = 0
    /\ marks = 0
    /\ sel_log = <<>>
    /\ now = 0
    /\ memory_limiters = <<>>
    /\ redis_counts = <<>>
    /\ chk = [i \in Slots |-> IdleCheck]
    /\ lim_log = <<>>
    /\ gw = IdleGw
    /\ events = <<>>
    /\ arrived = 0
    /\ metrics = InitMetrics
    /\ uuids = 0
    /\ perm = NoPermCheck
    /\ writer = NoWriter
    /\ reader = NoReader
    /\ handlers = [i \in Slots |-> IdleHandler]

\* The gateway as main.rs wires it: the health task runs beside the request
\* path, here with one request task alive at a time.  Nothing calls
\* ProxyService::update_server_health.
Init ==
    /\ routes = ConfigRoutes
    /\ rate_limiting = ConfigRateLimiting
    /\ auth = ConfigAuth
    /\ InitProgram

Next ==
    \/ ticks < JointTicks /\ TickStart /\ UNCHANGED <<histVars, pipeVars>>
    \/ LoggedProbe
    \/ TickEnd /\ UNCHANGED <<histVars, pipeVars>>
    \/ /\ started < JointRequests
       /\ \E m \in RequestMethods, p \in RequestPaths : SelectPick(1, m, p)
       /\ UNCHANGED <<histVars, pipeVars>>
    \/ CountConnection(1) /\ UNCHANGED <<histVars, pipeVars>>
    \/ \E o \in UpstreamOutcomes : UpstreamDone(1, o) /\ UNCHANGED <<histVars, pipeVars>>
    \/ Cancel(1) /\ UNCHANGED <<histVars, pipeVars>>
    \/ Finish(1) /\ UNCHANGED <<histVars, pipeVars>>

Spec == Init /\ [][Next]_vars

\* The health task alone
NextHealth ==
    \/ ticks < MaxTicks /\ TickStart /\ UNCHANGED <<histVars, pipeVars>>
    \/ LoggedProbe
    \/ TickEnd /\ UNCHANGED <<histVars, pipeVars>>

SpecHealth == Init /\ [][NextHealth]_vars

\* The health task writing under the lock while a handler reads the registry
NextRegistry ==
    \/ ticks < RegistryTicks /\ TickStart /\ UNCHANGED <<histVars, pipeVars>>
    \/ \E p \in ProbesOfTick, ok \in BOOLEAN : WriteBegin(p[1], p[2], ok)
    \/ WriteEnd
    \/ \E p \in ProbesOfTick : ReadBegin(p[1], p[2])
    \/ ReadEnd
    \/ LockedTickEnd

SpecRegistry == Init /\ [][NextRegistry]_vars

\* The route matcher alone, over every small route table and path
InitRoute ==
    /\ routes \in RouteTables \cup {ConfigRoutes}
    /\ rate_limiting = ConfigRateLimiting
    /\ auth = ConfigAuth
    /\ InitProgram

NextRoute ==
    \E m \in RequestMethods, p \in Strings \cup RequestPaths :
        MatchRoute(m, p) /\ UNCHANGED <<histVars, pipeVars>>

SpecRoute == InitRoute /\ [][NextRoute]_vars

\* The proxy alone: concurrent request tasks, and ProxyService::update_server_health
\* called by whoever holds the service
NextProxy ==
    \/ /\ started < MaxRequests
       /\ \E i \in Slots, m \in RequestMethods, p \in RequestPaths : SelectPick(i, m, p)
       /\ UNCHANGED <<histVars, pipeVars>>
    \/ \E i \in Slots : CountConnection(i) /\ UNCHANGED <<histVars, pipeVars>>
    \/ \E i \in Slots, o \in UpstreamOutcomes : UpstreamDone(i, o) /\ UNCHANGED <<histVars, pipeVars>>
    \/ \E i \in Slots : Cancel(i) /\ UNCHANGED <<histVars, pipeVars>>
    \/ \E i \in Slots : Finish(i) /\ UNCHANGED <<histVars, pipeVars>>
    \/ /\ marks < MaxMarks
       /\ \E b \in Backends, k \in 1..3, h \in BOOLEAN :
            /\ k <= Len(BackendConfig(b).servers)
            /\ MarkServer(b, BackendConfig(b).servers[k], h)
       /\ UNCHANGED <<histVars, pipeVars>>

SpecProxy == Init /\ [][NextProxy]_vars

\* Sequential requests on the round-robin routes: a request is accepted only
\* when no other is alive.  Every selection and every health mark is appended
\* to sel_log.
SeqPaths ==
    { p \in RequestPaths :
        LET r == find_matching_route(ConfigRoutes, p)
        IN  r # 0 /\ ConfigRoutes[r].load_balancing = "RoundRobin" }

SelectEntry(r) ==
    [kind |-> "select", backend |-> r.state,
     server |-> backend_states[r.state].servers[r.server].url, healthy |-> TRUE]

MarkEntry(b, url, h) ==
    [kind |-> "mark", backend |-> b, server |-> url, healthy |-> h]

NextSeq ==
    \/ /\ started < SeqRequests
       /\ \E m \in RequestMethods, p \in SeqPaths : SelectPick(1, m, p)
       /\ sel_log' = IF req'[1].pc = "picked"
                     THEN Append(sel_log, SelectEntry(req'[1])) ELSE sel_log
       /\ UNCHANGED <<probe_log, pipeVars>>
    \/ CountConnection(1) /\ UNCHANGED <<histVars, pipeVars>>
    \/ \E o \in UpstreamOutcomes : UpstreamDone(1, o) /\ UNCHANGED <<histVars, pipeVars>>
    \/ Cancel(1) /\ UNCHANGED <<histVars, pipeVars>>
    \/ Finish(1) /\ UNCHANGED <<histVars, pipeVars>>
    \/ /\ marks < MaxMarks
       /\ \E b \in Backends, k \in 1..3, h \in BOOLEAN :
            /\ k <= Len(BackendConfig(b).servers)
            /\ MarkServer(b, BackendConfig(b).servers[k], h)
            /\ sel_log' = Append(sel_log, MarkEntry(b, BackendConfig(b).servers[k], h))
       /\ UNCHANGED <<probe_log, pipeVars>>

SpecSeq == Init /\ [][NextSeq]_vars

\* The same configuration with every round-robin route declared as
\* weighted_round_robin instead
WrrRoutes ==
    [r \in DOMAIN ConfigRoutes |->
        [ConfigRoutes[r] EXCEPT !.load_balancing =
            IF @ = "RoundRobin" THEN "WeightedRoundRobin" ELSE @]]

InitWrr ==
    /\ routes = WrrRoutes
    /\ rate_limiting = ConfigRateLimiting
    /\ auth = ConfigAuth
    /\ InitProgram

\* Sequential requests on the weighted-round-robin routes, logged as in NextSeq
NextWrr ==
    \/ /\ started < WrrRequests
       /\ \E m \in RequestMethods, p \in SeqPaths : SelectPick(1, m, p)
       /\ sel_log' = IF req'[1].pc = "picked"
                     THEN Append(sel_log, SelectEntry(req'[1])) ELSE sel_log
       /\ UNCHANGED <<probe_log, pipeVars>>
    \/ CountConnection(1) /\ UNCHANGED <<histVars, pipeVars>>
    \/ \E o \in UpstreamOutcomes : UpstreamDone(1, o) /\ UNCHANGED <<histVars, pipeVars>>
    \/ Cancel(1) /\ UNCHANGED <<histVars, pipeVars>>
    \/ Finish(1) /\ UNCHANGED <<histVars, pipeVars>>
    \/ /\ marks < MaxMarks
       /\ \E b \in Backends, k \in 1..3, h \in BOOLEAN :
            /\ k <= Len(BackendConfig(b).servers)
            /\ MarkServer(b, BackendConfig(b).servers[k], h)
            /\ sel_log' = Append(sel_log, MarkEntry(b, BackendConfig(b).servers[k], h))
       /\ UNCHANGED <<probe_log, pipeVars>>

SpecWrr == InitWrr /\ [][NextWrr]_vars

\* The local limiter alone: every small quota and burst, checks of two
\* clients at any times
InitLimiter ==
    /\ routes = ConfigRoutes
    /\ rate_limiting \in { RateLimiting(q, b, "memory") : q \in 1..MaxQuota, b \in 1..MaxBurst }
    /\ auth = ConfigAuth
    /\ InitProgram

NextLimiter ==
    \/ /\ ChecksStarted < MaxChecks
       /\ \E c \in Clients : CheckMemory(1, c)
       /\ UNCHANGED <<routeVars, healthVars, proxyVars, histVars, authVars, pipeVars>>
    \/ CheckReturn(1) /\ UNCHANGED <<routeVars, healthVars, proxyVars, histVars, authVars, pipeVars>>
    \/ now < MaxNow /\ Tick /\ UNCHANGED <<routeVars, healthVars, proxyVars, histVars, authVars, pipeVars>>

SpecLimiter == InitLimiter /\ [][NextLimiter]_vars

\* The local limiter with concurrent checks, step by step
BucketChecksStarted ==
    Cardinality({ j \in DOMAIN lim_log : lim_log[j].result # "Created" })
        + Cardinality({ i \in DOMAIN chk : EntryHeld(i) })

NextBucket ==
    \/ /\ BucketChecksStarted < BucketChecks
       /\ \E i \in Slots, c \in Clients : EntryMemory(i, c)
       /\ UNCHANGED <<routeVars, healthVars, proxyVars, histVars, authVars, pipeVars>>
    \/ \E i \in Slots : OrInsertWith(i) /\ UNCHANGED <<routeVars, healthVars, proxyVars, histVars, authVars, pipeVars>>
    \/ \E i \in Slots : CheckKey(i) /\ UNCHANGED <<routeVars, healthVars, proxyVars, histVars, authVars, pipeVars>>
    \/ \E i \in Slots : CheckReturn(i) /\ UNCHANGED <<routeVars, healthVars, proxyVars, histVars, authVars, pipeVars>>
    \/ now < BucketNow /\ Tick /\ UNCHANGED <<routeVars, healthVars, proxyVars, histVars, authVars, pipeVars>>

SpecBucket == InitLimiter /\ [][NextBucket]_vars

\* The distributed limiter alone: concurrent checks against one store
InitRedis ==
    /\ routes = ConfigRoutes
    /\ rate_limiting \in { RateLimiting(q, b, "redis") : q \in 1..MaxQuota, b \in {1} }
    /\ auth = ConfigAuth
    /\ InitProgram

NextRedis ==
    \/ /\ ChecksStarted < RedisChecks
       /\ \E i \in Slots, c \in Clients, reachable \in BOOLEAN : RedisConnect(i, c, reachable)
       /\ UNCHANGED <<routeVars, healthVars, proxyVars, histVars, authVars, pipeVars>>
    \/ \E i \in Slots : RedisIncr(i) /\ UNCHANGED <<routeVars, healthVars, proxyVars, histVars, authVars, pipeVars>>
    \/ \E i \in Slots : \E d \in decode_count(Replies(i)) :
          /\ RedisGet(i, d)
          /\ UNCHANGED <<routeVars, healthVars, proxyVars, histVars, authVars, pipeVars>>
    \/ \E i \in Slots : RedisQueryFail(i) /\ UNCHANGED <<routeVars, healthVars, proxyVars, histVars, authVars, pipeVars>>
    \/ \E i \in Slots : CheckReturn(i) /\ UNCHANGED <<routeVars, healthVars, proxyVars, histVars, authVars, pipeVars>>
    \/ now < RedisNow /\ Tick /\ UNCHANGED <<routeVars, healthVars, proxyVars, histVars, authVars, pipeVars>>

SpecRedis == InitRedis /\ [][NextRedis]_vars

\* The requests sent through the layers: with and without credentials
Tokens ==
    { [signed_with |-> "secret", expired |-> FALSE],
      [signed_with |-> "secret", expired |-> TRUE],
      [signed_with |-> "other", expired |-> FALSE] }

AuthorizationValues ==
    { <<>> } \cup { <<[scheme |-> "Bearer ", token |-> t]>> : t \in Tokens }
            \cup { <<[scheme |-> "Basic ", token |-> [signed_with |-> "secret", expired |-> FALSE]]>> }

ApiKeyValues == { <<>>, <<"ak_user_09876543210987654321">>, <<"ak_none">> }

PipeHeaders ==
    { [n \in HeaderNames |->
         IF n = "Authorization" THEN a ELSE IF n = "X-API-Key" THEN k ELSE <<>>]
      : a \in AuthorizationValues, k \in ApiKeyValues }

PipePaths == RequestPaths \cup AdminPaths

\* The gateway's request path as main.rs wires it, one request at a time:
\* the layers, the limiter with either store, the auth filter, the router, the
\* proxy
InitPipe ==
    /\ routes = ConfigRoutes
    /\ rate_limiting \in { ConfigRateLimiting, RateLimiting(1, 1, "redis"),
                           [ConfigRateLimiting EXCEPT !.enabled = FALSE] }
    /\ auth \in { Auth(TRUE), Auth(FALSE) }
    /\ InitProgram

NextPipe ==
    \/ /\ arrived < MaxArrivals
       /\ \E m \in RequestMethods, p \in PipePaths, h \in PipeHeaders : Arrive(m, p, h)
       /\ UNCHANGED histVars
    \/ PassThrough /\ UNCHANGED histVars
    \/ LoggingIn /\ UNCHANGED histVars
    \/ RateLimitSkip /\ UNCHANGED histVars
    \/ RateLimitCall /\ UNCHANGED histVars
    \/ /\ gw.pc = "checking"
       /\ CheckMemory(1, extract_client_id(gw.headers))
       /\ UNCHANGED <<routeVars, healthVars, proxyVars, histVars, authVars, pipeVars>>
    \/ /\ gw.pc = "checking"
       /\ \E reachable \in BOOLEAN : RedisConnect(1, extract_client_id(gw.headers), reachable)
       /\ UNCHANGED <<routeVars, healthVars, proxyVars, histVars, authVars, pipeVars>>
    \/ RedisIncr(1) /\ UNCHANGED <<routeVars, healthVars, proxyVars, histVars, authVars, pipeVars>>
    \/ /\ \E d \in decode_count(Replies(1)) : RedisGet(1, d)
       /\ UNCHANGED <<routeVars, healthVars, proxyVars, histVars, authVars, pipeVars>>
    \/ RedisQueryFail(1) /\ UNCHANGED <<routeVars, healthVars, proxyVars, histVars, authVars, pipeVars>>
    \/ RateLimitDecide /\ UNCHANGED histVars
    \/ AuthLayer /\ UNCHANGED histVars
    \/ RouterAdmin /\ UNCHANGED histVars
    \/ RouterProxy /\ UNCHANGED histVars
    \/ ProxySelect /\ UNCHANGED histVars
    \/ ProxyDispatch /\ UNCHANGED histVars
    \/ \E o \in UpstreamOutcomes, echo \in BOOLEAN : ProxyUpstream(o, echo) /\ UNCHANGED histVars
    \/ ProxyReturn /\ UNCHANGED histVars
    \/ LayerOut /\ UNCHANGED histVars
    \/ Emit /\ UNCHANGED histVars

SpecPipe == InitPipe /\ [][NextPipe]_vars

\* Requests one after another at one instant, through the layers with the
\* local limiter and authentication enabled: without credentials, with a
\* valid bearer token, with a valid API key
QuotaHeaders ==
    { h \in PipeHeaders :
        \/ h["Authorization"] = <<>> /\ h["X-API-Key"] = <<>>
        \/ /\ h["Authorization"] = <<[scheme |-> "Bearer ",
                                      token |-> [signed_with |-> "secret", expired |-> FALSE]]>>
           /\ h["X-API-Key"] = <<>>
        \/ h["Authorization"] = <<>> /\ h["X-API-Key"] = <<"ak_user_09876543210987654321">> }

InitQuota ==
    /\ routes = ConfigRoutes
    /\ rate_limiting = ConfigRateLimiting
    /\ auth = Auth(TRUE)
    /\ InitProgram

NextQuota ==
    \/ /\ arrived < QuotaArrivals
       /\ \E m \in RequestMethods, p \in PipePaths, h \in QuotaHeaders : Arrive(m, p, h)
       /\ UNCHANGED histVars
    \/ PassThrough /\ UNCHANGED histVars
    \/ LoggingIn /\ UNCHANGED histVars
    \/ RateLimitCall /\ UNCHANGED histVars
    \/ /\ gw.pc = "checking"
       /\ CheckMemory(1, extract_client_id(gw.headers))
       /\ UNCHANGED <<routeVars, healthVars, proxyVars, histVars, authVars, pipeVars>>
    \/ RateLimitDecide /\ UNCHANGED histVars
    \/ AuthLayer /\ UNCHANGED histVars
    \/ RouterAdmin /\ UNCHANGED histVars
    \/ RouterProxy /\ UNCHANGED histVars
    \/ ProxySelect /\ UNCHANGED histVars
    \/ ProxyDispatch /\ UNCHANGED histVars
    \/ \E o \in UpstreamOutcomes, echo \in BOOLEAN : ProxyUpstream(o, echo) /\ UNCHANGED histVars
    \/ ProxyReturn /\ UNCHANGED histVars
    \/ LayerOut /\ UNCHANGED histVars
    \/ Emit /\ UNCHANGED histVars

SpecQuota == InitQuota /\ [][NextQuota]_vars

\* Concurrent proxy_handler tasks and the two counters
NextMetrics ==
    \/ arrived < MetricsArrivals /\ \E i \in Slots : HandlerEnter(i)
    \/ \E i \in Slots, result \in {None} \cup ProxyErrors : HandlerProxied(i, result)
    \/ \E i \in Slots : HandlerRecordError(i)
    \/ \E i \in Slots : HandlerReturn(i)
    \/ \E i \in Slots : HandlerDrop(i)

SpecMetrics == Init /\ [][NextMetrics]_vars

\* Concurrent request tasks with every round-robin selection appended to
\* sel_log: the cursor value fetch_add returned, the healthy list it was
\* reduced by and the server picked.
CursorEntry(r, states) ==
    [kind |-> "select", backend |-> r.state, server |-> r.server,
     index |-> states[r.state].current_index,
     among |-> healthy_servers(states[r.state])]

\* Two request tasks, on the routes of backend b1
CursorTasks == {1, 2}

CursorPaths ==
    { p \in RequestPaths :
        LET r == find_matching_route(ConfigRoutes, p)
        IN  r # 0 /\ ConfigRoutes[r].backend = "b1" }

NextCursor ==
    \/ /\ started < CursorRequests
       /\ \E i \in CursorTasks, m \in RequestMethods, p \in CursorPaths :
            /\ SelectPick(i, m, p)
            /\ sel_log' = IF /\ req'[i].pc = "picked"
                             /\ routes[req'[i].route].load_balancing = "RoundRobin"
                          THEN Append(sel_log, CursorEntry(req'[i], backend_states))
                          ELSE sel_log
       /\ UNCHANGED <<probe_log, pipeVars>>
    \/ \E i \in CursorTasks : CountConnection(i) /\ UNCHANGED <<histVars, pipeVars>>
    \/ \E i \in CursorTasks : UpstreamDone(i, "ok") /\ UNCHANGED <<histVars, pipeVars>>
    \/ \E i \in CursorTasks : Finish(i) /\ UNCHANGED <<histVars, pipeVars>>
    \/ /\ marks < MaxMarks
       /\ \E k \in 1..3, h \in BOOLEAN :
            /\ k <= Len(BackendConfig("b1").servers)
            /\ MarkServer("b1", BackendConfig("b1").servers[k], h)
       /\ UNCHANGED <<histVars, pipeVars>>

SpecCursor == Init /\ [][NextCursor]_vars

\* The permission check on its own: lists of up to MaxPerms permissions
Permissions == {"read", "write", "admin"}

PermissionLists == UNION { [1..n -> Permissions] : n \in 0..MaxPerms }

NextPerm ==
    \E required \in PermissionLists, held \in PermissionLists :
        ValidatePermissions(required, held)

SpecPerm == Init /\ [][NextPerm]_vars

\* The proxied requests of a gateway whose filters are switched off, while
\* ProxyService::update_server_health takes servers down and up: as many
\* calls as the larger backend has servers
OutageMarks == Len(BackendConfig("b1").servers)

InitOutage ==
    /\ routes = ConfigRoutes
    /\ rate_limiting = [ConfigRateLimiting EXCEPT !.enabled = FALSE]
    /\ auth = Auth(FALSE)
    /\ InitProgram

NextOutage ==
    \/ /\ arrived < MaxArrivals
       /\ \E m \in RequestMethods, p \in RequestPaths : Arrive(m, p, NoHeaders)
       /\ UNCHANGED histVars
    \/ PassThrough /\ UNCHANGED histVars
    \/ LoggingIn /\ UNCHANGED histVars
    \/ RateLimitSkip /\ UNCHANGED histVars
    \/ AuthLayer /\ UNCHANGED histVars
    \/ RouterProxy /\ UNCHANGED histVars
    \/ ProxySelect /\ UNCHANGED histVars
    \/ ProxyDispatch /\ UNCHANGED histVars
    \/ \E o \in UpstreamOutcomes, echo \in BOOLEAN : ProxyUpstream(o, echo) /\ UNCHANGED histVars
    \/ ProxyReturn /\ UNCHANGED histVars
    \/ LayerOut /\ UNCHANGED histVars
    \/ Emit /\ UNCHANGED histVars
    \/ /\ marks < OutageMarks
       /\ \E b \in Backends, k \in 1..3, h \in BOOLEAN :
            /\ k <= Len(BackendConfig(b).servers)
            /\ MarkServer(b, BackendConfig(b).servers[k], h)
       /\ UNCHANGED <<histVars, pipeVars>>

SpecOutage == InitOutage /\ [][NextOutage]_vars

\* The requests drawn for extract_client_id: with and without an API key, with
\* and without an X-Forwarded-For value of up to MaxForwarded characters
ForwardedChars == {"7", " ", ",", OpaqueByte}

ForwardedValues == UNION { [1..n -> ForwardedChars] : n \in 0..MaxForwarded }

ClientHeaders ==
    { [n \in HeaderNames |->
         IF n = "X-API-Key" THEN k ELSE IF n = "X-Forwarded-For" THEN f ELSE <<>>]
      : k \in { <<>>, <<"ak_user_09876543210987654321">>, <<OpaqueKey>> },
        f \in { <<>> } \cup { <<v>> : v \in ForwardedValues } }

\* One request of the gateway's own /health, limited in memory, auth off
InitClient ==
    /\ routes = ConfigRoutes
    /\ rate_limiting = ConfigRateLimiting
    /\ auth = Auth(FALSE)
    /\ InitProgram

NextClient ==
    \/ /\ arrived = 0
       /\ \E h \in ClientHeaders : Arrive("GET", HealthPath, h)
       /\ UNCHANGED histVars
    \/ PassThrough /\ UNCHANGED histVars
    \/ LoggingIn /\ UNCHANGED histVars
    \/ RateLimitCall /\ UNCHANGED histVars
    \/ /\ gw.pc = "checking"
       /\ CheckMemory(1, extract_client_id(gw.headers))
       /\ UNCHANGED <<routeVars, healthVars, proxyVars, histVars, authVars, pipeVars>>
    \/ RateLimitDecide /\ UNCHANGED histVars
    \/ AuthLayer /\ UNCHANGED histVars
    \/ RouterAdmin /\ UNCHANGED histVars
    \/ LayerOut /\ UNCHANGED histVars
    \/ Emit /\ UNCHANGED histVars

SpecClient == InitClient /\ [][NextClient]_vars

-----------------------------------------------------------------------------
(* Properties *)

ServerRecord(p)  == health_status[p[1]].servers[p[2]]
ServerRecordN(p) == health_status'[p[1]].servers[p[2]]
HealthySpec(b)   == BackendConfig(b).health_check.healthy_threshold
UnhealthySpec(b) == BackendConfig(b).health_check.unhealthy_threshold

\* The last probe of server p, appended by this step, had outcome ok
ProbedNow(p, ok) == probe_log'[p] = Append(probe_log[p], ok)

\* C1: whenever upstream selection returns a server, the health registry's
\* record of that server under the route's backend has status Healthy at
\* that moment (never Unknown, never Unhealthy).
C1_SelectedServerIsHealthy ==
    [][\A i \in Slots :
         (req[i].pc # "picked" /\ req'[i].pc = "picked") =>
            is_server_healthy(health_status',
                              routes[req'[i].route].backend,
                              backend_states'[req'[i].state].servers[req'[i].server].url)]_vars

\* C2: for a server that is not Healthy, a successful probe makes it Healthy
\* exactly when it brings the consecutive successes to the healthy threshold
\* H; after a success that leaves them below H the server is not Healthy.
C2_HealthyAtThreshold ==
    [][\A p \in ProbesOfTick :
         (ProbedNow(p, TRUE) /\ ServerRecord(p).status # "Healthy") =>
            (ServerRecordN(p).status = "Healthy"
               <=> ServerRecordN(p).consecutive_successes >= HealthySpec(p[1]))]_vars

\* C3: a Healthy server stays Healthy after a failed probe that leaves the
\* consecutive failures below the unhealthy threshold U, and a failed probe
\* sets the status to Unhealthy only when the consecutive failures reach U.
C3_UnhealthyAtThreshold ==
    [][\A p \in ProbesOfTick :
         ProbedNow(p, FALSE) =>
            /\ (ServerRecord(p).status = "Healthy"
                  /\ ServerRecordN(p).consecutive_failures < UnhealthySpec(p[1]))
               => ServerRecordN(p).status = "Healthy"
            /\ (ServerRecord(p).status # "Unhealthy"
                  /\ ServerRecordN(p).status = "Unhealthy")
               => ServerRecordN(p).consecutive_failures >= UnhealthySpec(p[1])]_vars

\* The log holds n outcomes `ok` in a row somewhere
HasRun(log, ok, n) ==
    \E j \in 0..(Len(log) - n) : \A l \in 1..n : log[j + l] = ok

ScenarioProbes   == <<TRUE, FALSE, TRUE, TRUE, TRUE>>
\* the status at the start and after each of the first four probes
ScenarioStatuses == <<"Unknown", "Unknown", "Unknown", "Unknown", "Healthy">>

\* C4: with H = 2 and U = 3, along the probe sequence OK, FAIL, OK, OK, OK
\* from Unknown the status history is Unknown, Unknown, Unknown, Unknown,
\* Healthy; and a server has left Unknown only after H consecutive successes
\* or U consecutive failures.
C4_LeavesUnknownAtThreshold ==
    \A p \in ProbesOfTick :
        /\ \A n \in 0..4 :
              probe_log[p] = SubSeq(ScenarioProbes, 1, n)
                 => ServerRecord(p).status = ScenarioStatuses[n + 1]
        /\ ServerRecord(p).status # "Unknown"
              => \/ HasRun(probe_log[p], TRUE, HealthySpec(p[1]))
                 \/ HasRun(probe_log[p], FALSE, UnhealthySpec(p[1]))

\* C5: in every server health record, consecutive successes > 0 implies
\* consecutive failures = 0, and consecutive failures > 0 implies
\* consecutive successes = 0.
C5_CountersExclusive ==
    \A b \in Backends : \A k \in DOMAIN health_status[b].servers :
        LET rec == health_status[b].servers[k]
        IN  /\ rec.consecutive_successes > 0 => rec.consecutive_failures = 0
            /\ rec.consecutive_failures > 0 => rec.consecutive_successes = 0

\* C5's case: a server that failed a probe and then passed the next one
C5_Witness ==
    \E p \in ProbesOfTick :
        /\ Len(probe_log[p]) >= 2
        /\ probe_log[p][Len(probe_log[p]) - 1] = FALSE
        /\ probe_log[p][Len(probe_log[p])] = TRUE
        /\ ServerRecord(p).consecutive_successes = 1

\* The matching rule in the words of the route grammar: a pattern ending in
\* '*' matches the paths that continue its literal prefix, any other pattern
\* matches the identical path only
LiteralPrefix(pattern) == SubSeq(pattern, 1, Len(pattern) - 1)

RuleMatches(pattern, path) ==
    IF pattern # <<>> /\ pattern[Len(pattern)] = "*"
    THEN \E n \in 0..Len(path) :
            path = LiteralPrefix(pattern) \o SubSeq(path, n + 1, Len(path))
    ELSE path = pattern

\* C6: route matching returns the first route in declaration order whose
\* pattern matches the path: no route declared before the returned one
\* matches, and no match is reported only when no declared route matches.
C6_FirstMatchWins ==
    match.called =>
        IF match.result = 0
        THEN \A j \in DOMAIN routes : ~RuleMatches(routes[j].path, match.path)
        ELSE /\ match.result \in DOMAIN routes
             /\ RuleMatches(routes[match.result].path, match.path)
             /\ \A j \in 1..(match.result - 1) : ~RuleMatches(routes[j].path, match.path)

\* C6's case: two declared routes match the path and the first is returned
C6_Witness ==
    /\ match.called
    /\ Len(routes) >= 2
    /\ match.result = 1
    /\ routes[1].path # routes[2].path
    /\ RuleMatches(routes[2].path, match.path)

\* The pattern rule of C7, for every declared pattern and the looked-up path
PatternRule ==
    \A j \in DOMAIN routes :
        path_matches(routes[j].path, match.path) <=> RuleMatches(routes[j].path, match.path)

\* The looked-up path was matched by a route with a '*' pattern
StarMatched ==
    /\ match.called
    /\ match.result # 0
    /\ ends_with_star(routes[match.result].path)

\* C7 as stated: the pattern rule, and every path made of the matched '*'
\* pattern's literal prefix plus any suffix is matched to the same route.
C7_PrefixClosedSameRoute ==
    /\ match.called => PatternRule
    /\ StarMatched =>
         \A extra \in Tails :
            find_matching_route(routes, LiteralPrefix(routes[match.result].path) \o extra)
               = match.result

\* C7 as amended: the pattern rule, and every path made of the matched '*'
\* pattern's literal prefix plus any suffix matches that pattern; it is
\* matched to the same route unless a route declared earlier matches it, and
\* then to the first such route.
C7_PrefixClosedUpToEarlierRoutes ==
    /\ match.called => PatternRule
    /\ StarMatched =>
         \A extra \in Tails :
            LET path2 == LiteralPrefix(routes[match.result].path) \o extra
                r2    == find_matching_route(routes, path2)
            IN  /\ path_matches(routes[match.result].path, path2)
                /\ r2 \in 1..match.result
                /\ RuleMatches(routes[r2].path, path2)
                /\ \A j \in 1..(r2 - 1) : ~RuleMatches(routes[j].path, path2)

\* C7's case: a path matched by a '*' route declared second, whose prefix has
\* a continuation that the first route takes
C7_Witness ==
    /\ StarMatched
    /\ match.result = 2
    /\ Len(match.path) > Len(LiteralPrefix(routes[2].path))
    /\ \E extra \in Tails :
          find_matching_route(routes, LiteralPrefix(routes[2].path) \o extra) = 1

\* ASCII lower case of the method names in use
LowerCase(m) ==
    CASE m = "GET"  -> "get"
      [] m = "POST" -> "post"
      [] OTHER      -> m

\* C8: a route that declares a method matches a request only if the
\* request's method equals the declared one, compared case-insensitively.
C8_DeclaredMethodMustMatch ==
    (match.called /\ match.result # 0 /\ routes[match.result].method # None)
        => LowerCase(routes[match.result].method) = LowerCase(match.method)

\* C9: once its requests have completed (answered, failed or cancelled),
\* every server's connection counter is back at its initial value 0.
C9_CountersReturn ==
    (\A i \in Slots : req[i].pc \in {"idle", "done"}) =>
        \A b \in Backends : \A k \in DOMAIN backend_states[b].servers :
            backend_states[b].servers[k].connections = 0

\* The servers of backend b whose last health mark among the first n entries
\* of the log is not "unhealthy" (every server starts healthy), in the order
\* of the backend's server list
MarkedHealthy(log, n, b, url) ==
    LET ms == { j \in 1..n : log[j].kind = "mark" /\ log[j].backend = b
                             /\ log[j].server = url }
    IN  ms = {} \/ log[CHOOSE j \in ms : \A l \in ms : l <= j].healthy

HealthyList(log, n, b) ==
    SelectSeq(BackendConfig(b).servers, LAMBDA url : MarkedHealthy(log, n, b, url))

SelectionsBefore(log, n, b) ==
    Cardinality({ j \in 1..n : log[j].kind = "select" /\ log[j].backend = b })

AllSelects(log, from, to) ==
    \A j \in from..to : j <= Len(log) => (log[j].kind = "select" /\ log[j].backend = "b1")

RoundOfThree == <<"A", "B", "C", "A", "B", "C">>
RoundOfTwo   == <<"A", "C", "A", "C", "A", "C">>

\* C10: under RoundRobin every selection picks healthy[counter mod
\* len(healthy)], healthy being the backend's servers that are marked healthy,
\* in their original order, and advances the backend's counter by exactly one;
\* so [A,B,C] serve six sequential requests as A,B,C,A,B,C, and once B is
\* marked unhealthy the next six as A,C,A,C,A,C.
C10_RoundRobinOrder ==
    /\ \A b \in Backends :
          backend_states[b].current_index = SelectionsBefore(sel_log, Len(sel_log), b)
    /\ \A n \in DOMAIN sel_log :
          sel_log[n].kind = "select" =>
             LET b       == sel_log[n].backend
                 healthy == HealthyList(sel_log, n - 1, b)
                 counter == SelectionsBefore(sel_log, n - 1, b)
             IN  /\ healthy # <<>>
                 /\ sel_log[n].server = healthy[(counter % Len(healthy)) + 1]
    /\ \A n \in 1..6 :
          (n <= Len(sel_log) /\ AllSelects(sel_log, 1, n))
             => sel_log[n].server = RoundOfThree[n]
    /\ \A n \in 8..13 :
          (/\ n <= Len(sel_log)
           /\ AllSelects(sel_log, 1, 6)
           /\ sel_log[7] = MarkEntry("b1", "B", FALSE)
           /\ AllSelects(sel_log, 8, n))
             => sel_log[n].server = RoundOfTwo[n - 7]

\* C10's case: six selections, B marked unhealthy, six more selections
C10_Witness ==
    /\ Len(sel_log) = 13
    /\ AllSelects(sel_log, 1, 6)
    /\ sel_log[7] = MarkEntry("b1", "B", FALSE)
    /\ AllSelects(sel_log, 8, 13)

\* The requests that are using server k of the backend state `name`: selected
\* and not yet completed
InFlight(name, k) ==
    Cardinality({ j \in Slots : /\ req[j].pc \in {"picked", "upstream"}
                                /\ req[j].state = name
                                /\ req[j].server = k })

\* Slot i selects a server in this step, on a route of the given strategy
Selects(i, strategy) ==
    /\ req[i].pc # "picked"
    /\ req'[i].pc = "picked"
    /\ routes[req'[i].route].load_balancing = strategy

\* C11: under LeastConnections the selected server is healthy, its in-flight
\* count is minimal among the healthy servers of the backend, and no healthy
\* server earlier in the backend's server list has the same in-flight count.
C11_LeastInFlightFirst ==
    [][\A i \in Slots :
         Selects(i, "LeastConnections") =>
            LET name    == req'[i].state
                k       == req'[i].server
                servers == backend_states[name].servers
            IN  /\ servers[k].healthy
                /\ \A l \in DOMAIN servers :
                      servers[l].healthy => InFlight(name, k) <= InFlight(name, l)
                /\ \A l \in 1..(k - 1) :
                      servers[l].healthy => InFlight(name, l) > InFlight(name, k)]_vars

\* The backend states after a health mark and after a counted selection
Marked(states, b, url, h) ==
    LET k == IF b \in DOMAIN states THEN first_with_url(states[b].servers, url, 1) ELSE 0
    IN  IF k = 0 THEN states ELSE [states EXCEPT ![b].servers[k].healthy = h]

Counted(states, name, k) ==
    [states EXCEPT ![name].servers[k].connections = @ + 1]

\* The first n entries of the log replayed from the initial backend states
\* with every selection made by RoundRobin: the resulting backend states
RECURSIVE ReplayRR(_, _)
ReplayRR(log, n) ==
    IF n = 0 THEN InitBackendStates
    ELSE LET prev == ReplayRR(log, n - 1)
             e    == log[n]
         IN  IF e.kind = "mark"
             THEN Marked(prev, e.backend, e.server, e.healthy)
             ELSE LET bs == prev[e.backend]
                      k  == round_robin_pick(bs, healthy_servers(bs))
                  IN  Counted([prev EXCEPT ![e.backend] = advance_cursor("RoundRobin", bs)],
                              e.backend, k)

\* The server RoundRobin returns for the n-th entry of the log
ServerRR(log, n) ==
    LET bs == ReplayRR(log, n - 1)[log[n].backend]
    IN  bs.servers[round_robin_pick(bs, healthy_servers(bs))].url

\* C12: WeightedRoundRobin is observationally equivalent to RoundRobin: a
\* sequence of WeightedRoundRobin selections (with health marks in between)
\* returns the servers that the same sequence of RoundRobin selections
\* returns, and leaves the same cursor and the same connection counters.
C12_WeightedEqualsRoundRobin ==
    LET expected == ReplayRR(sel_log, Len(sel_log))
    IN  /\ \A n \in DOMAIN sel_log :
              sel_log[n].kind = "select" => sel_log[n].server = ServerRR(sel_log, n)
        /\ \A b \in Backends :
              backend_states[b].current_index = expected[b].current_index
        /\ req[1].pc # "picked" => backend_states = expected

\* C12's case: a weighted-round-robin run of five selections or more, one of
\* b1's servers marked unhealthy after the first of them
C12_Witness ==
    /\ req[1].pc = "upstream"
    /\ routes[req[1].route].load_balancing = "WeightedRoundRobin"
    /\ Len(sel_log) >= 6
    /\ sel_log[1].kind = "select"
    /\ \E n \in 2..3 : /\ sel_log[n].kind = "mark" /\ sel_log[n].backend = "b1"
                       /\ ~sel_log[n].healthy

\* The lines of the limiter's log about client c, in order
ClientLines(c) == SelectSeq(lim_log, LAMBDA e : e.client = c)

QuotaSpec == rate_limiting.default_requests_per_minute
BurstSpec == rate_limiting.burst_size

\* 60 / Q seconds and 60 seconds on the model's clock
RefillTicks == Resolution
MinuteTicks == Resolution * QuotaSpec

\* The first n lines are checks made at the instant t0
AllAt(lines, n, t0) == \A k \in 1..n : lines[k].at = t0

\* C13: under the local limiter with quota Q and burst B, of the back-to-back
\* checks a client makes at the instant it is first seen exactly the first B
\* are allowed; and when its next checks come 60/Q seconds later, with none
\* in between, exactly one of them is allowed.
C13_BurstThenOnePerInterval ==
    \A c \in Clients :
        LET lines == ClientLines(c)
        IN  lines # <<>> =>
            LET t0 == lines[1].at
            IN  /\ \A n \in DOMAIN lines :
                      AllAt(lines, n, t0) => (lines[n].result = "Ok" <=> n <= BurstSpec)
                /\ \A m \in DOMAIN lines :
                      (/\ m >= BurstSpec
                       /\ AllAt(lines, m, t0)
                       /\ m < Len(lines)
                       /\ lines[m + 1].at = t0 + RefillTicks)
                      => /\ lines[m + 1].result = "Ok"
                         /\ \A n \in (m + 2)..Len(lines) :
                               lines[n].at = t0 + RefillTicks => lines[n].result = "Exceeded"

\* C13's case: a client's first B checks allowed and the next denied at one
\* instant, then 60/Q seconds later one check allowed and the next denied
C13_Witness ==
    \E c \in Clients :
        LET lines == ClientLines(c)
            B     == BurstSpec
        IN  /\ Len(lines) = B + 3
            /\ AllAt(lines, B + 1, lines[1].at)
            /\ lines[B + 1].result = "Exceeded"
            /\ lines[B + 2].at = lines[1].at + RefillTicks
            /\ lines[B + 2].result = "Ok"
            /\ lines[B + 3].at = lines[1].at + RefillTicks
            /\ lines[B + 3].result = "Exceeded"

\* The checks of client c that were allowed in the 60 seconds from s on
AllowedIn(c, s) ==
    { n \in DOMAIN lim_log : /\ lim_log[n].client = c
                              /\ lim_log[n].result = "Ok"
                              /\ s <= lim_log[n].at
                              /\ lim_log[n].at < s + MinuteTicks }

\* C14: under the local limiter, for every client and every interval of 60
\* seconds, the client's checks allowed within the interval number at most
\* quota + burst.
C14_WindowBound ==
    \A c \in Clients : \A s \in 0..MaxNow :
        Cardinality(AllowedIn(c, s)) <= QuotaSpec + BurstSpec

\* C14's case: an interval in which a client was denied, and yet allowed more
\* often than its burst, at different times
C14_Witness ==
    \E c \in Clients : \E s \in 0..MaxNow :
        /\ Cardinality(AllowedIn(c, s)) > BurstSpec
        /\ \E n \in AllowedIn(c, s) : lim_log[n].at > s
        /\ \E n \in DOMAIN lim_log :
              /\ lim_log[n].client = c /\ lim_log[n].result = "Exceeded"
              /\ s <= lim_log[n].at /\ lim_log[n].at < s + MinuteTicks

\* The lines of the log about checks of client c in the window starting at w
\* whose pipeline the store has answered
AnsweredLines(c, w) ==
    { n \in DOMAIN lim_log : /\ lim_log[n].client = c
                              /\ lim_log[n].window = w
                              /\ lim_log[n].read > 0 }

Min(a, b) == IF a <= b THEN a ELSE b

\* No check is between its first and its last step
NoCheckInProgress == \A i \in DOMAIN chk : chk[i].pc \notin {"connected", "incremented"}

\* C15: under the distributed limiter a check is allowed iff the counter of
\* its client and window, as its own increment left it, is at most the quota;
\* so of the checks of one client in one window exactly min(number of checks,
\* quota) are allowed, also when they run concurrently.
C15_AllowedUpToQuota ==
    \A c \in Clients : \A w \in 0..RedisNow :
        LET lines == AnsweredLines(c, w)
        IN  /\ \A n \in lines :
                  lim_log[n].result = "Ok" <=> lim_log[n].incr <= QuotaSpec
            /\ (NoCheckInProgress /\ <<c, w>> \in DOMAIN redis_counts
                  /\ Cardinality(lines) = redis_counts[<<c, w>>])
               => Cardinality({ n \in lines : lim_log[n].result = "Ok" })
                     = Min(Cardinality(lines), QuotaSpec)

\* C16: two checks of the same client in the same window observe distinct
\* values of the counter, and each observes the value its own increment
\* produced: the increment and the read are one atomic step on the store.
C16_IncrementAndReadAtomic ==
    \A c \in Clients : \A w \in 0..RedisNow :
        LET lines == AnsweredLines(c, w)
        IN  /\ \A n \in lines : lim_log[n].read = lim_log[n].incr
            /\ \A n1, n2 \in lines : n1 # n2 => lim_log[n1].read # lim_log[n2].read

\* The last call of check_rate_limit ended in InternalError without a reply
\* of the store: the store could not be reached
StoreUnreachable ==
    /\ lim_log # <<>>
    /\ lim_log[Len(lim_log)].result = "InternalError"
    /\ lim_log[Len(lim_log)].read = 0

\* C17: when the distributed store is unreachable the limiter reports
\* InternalError and the request goes on down the pipeline; a store failure
\* never produces a 429.
C17_StoreFailureFailsOpen ==
    (gw.limited = "InternalError" /\ StoreUnreachable) =>
        gw.status # 429

\* The request has the credentials the auth filter accepts
HasValidBearer ==
    LET h == gw.headers["Authorization"]
    IN  /\ h # <<>>
        /\ h[1].scheme = "Bearer "
        /\ h[1].token.signed_with = auth.jwt_secret
        /\ ~h[1].token.expired

HasKnownKey ==
    LET h == gw.headers[auth.api_key_header]
    IN  h # <<>> /\ h[1] \in ValidApiKeys

OnBypassList ==
    \E k \in DOMAIN auth.bypass_paths : RuleMatches(auth.bypass_paths[k], gw.path)

Occurred(e) == \E n \in DOMAIN events : events[n] = e

\* C18: with auth enabled a request passes the auth filter iff its path
\* matches a bypass_paths entry, or its Authorization header carries a valid
\* bearer token, or the configured API-key header carries a key of the key
\* store (also when an invalid bearer token is present); every other request
\* is answered 401 and not forwarded.  With auth disabled every request passes.
C18_AuthFilter ==
    gw.authed # None =>
        /\ gw.authed = "next"
              <=> (~auth.enabled \/ OnBypassList \/ HasValidBearer \/ HasKnownKey)
        /\ gw.authed = "UNAUTHORIZED"
              => /\ gw.status = 401
                 /\ ~Occurred("Router") /\ ~Occurred("Proxy") /\ ~Occurred("upstream-dispatch")
                 /\ req[1].pc = "idle"
        /\ gw.authed = "next" => gw.status # 401

\* C18's case: a request outside the bypass list that carries an expired
\* bearer token and a known API key is let through to the router
C18_Witness ==
    /\ auth.enabled
    /\ gw.authed = "next"
    /\ ~OnBypassList
    /\ gw.headers["Authorization"] # <<>>
    /\ ~HasValidBearer
    /\ HasKnownKey
    /\ Occurred("Router")


\* The layers and handlers a request has entered, in the order it entered them
LayerNames == {"Trace", "Cors", "Compression", "Logging", "RateLimit", "Auth", "Router", "Proxy"}

Entered == SelectSeq(events, LAMBDA e : e \in LayerNames)

StatedLayerOrder ==
    <<"Trace", "Cors", "Compression", "Logging", "RateLimit", "Auth", "Router", "Proxy">>

\* C19: an incoming request traverses the layers in the order Trace, CORS,
\* Compression, Logging, RateLimit, Auth, Router, Proxy handler: what it has
\* entered so far is always an initial part of that order.
C19_LayerOrder ==
    /\ Len(Entered) <= Len(StatedLayerOrder)
    /\ Entered = SubSeq(StatedLayerOrder, 1, Len(Entered))

\* The observable events of one request, in the order they happened
Observed(order) ==
    SelectSeq(events, LAMBDA e : \E k \in DOMAIN order : order[k] = e)

Pos(order, e) == CHOOSE k \in DOMAIN order : order[k] = e

InOrder(order) ==
    LET evs == Observed(order)
    IN  \A i, j \in DOMAIN evs : i < j => Pos(order, evs[i]) < Pos(order, evs[j])

StatedEventOrder ==
    <<"Trace", "auth-decision", "rate-decision", "route-match", "upstream-dispatch", "response-emit">>

CodeEventOrder ==
    <<"Trace", "rate-decision", "auth-decision", "route-match", "upstream-dispatch", "response-emit">>

RoundOver == phase = "idle" /\ ticks > 0

HasHealthyServer(b) ==
    \E k \in DOMAIN health_status[b].servers :
        health_status[b].servers[k].status = "Healthy"

\* C29: after every probe round a backend's overall status is Healthy iff at
\* least one of its servers has status Healthy; it is never Unhealthy while
\* one of its servers has status Healthy.
C29_LiveIffSomeServerHealthy ==
    RoundOver =>
        \A b \in DOMAIN health_status :
            /\ health_status[b].overall_status = "Healthy" <=> HasHealthyServer(b)
            /\ HasHealthyServer(b) => health_status[b].overall_status # "Unhealthy"


\* The response of the request in the stack has been sent to the client
Emitted == gw.pc = "idle" /\ Occurred("response-emit")

Before(e, f) ==
    \E m, n \in DOMAIN events : m < n /\ events[m] = e /\ events[n] = f

Dispatched == gw.outbound # <<>>

\* C22: every outbound upstream request carries an X-Request-ID header whose
\* value is the id the gateway logs for the request from ingress to
\* completion; the upstream never receives a different id.
C22_UpstreamGetsTheLoggedId ==
    Occurred("upstream-dispatch") =>
        /\ Dispatched
        /\ \A n \in DOMAIN gw.outbound : <<gw.outbound[n]>> = gw.request_id

\* C23: every response the gateway returns to a client (proxied, 401, 429,
\* 502, 504 and admin responses) carries an X-Request-ID header.
C23_ResponseCarriesRequestId ==
    Emitted => gw.response_ids # <<>>


\* C24: when the upstream does not answer within the route's timeout the
\* proxy fails with a timeout error, the client receives 504 (not 502) and
\* errors_total for that kind goes up by exactly 1.
C24_TimeoutAnswered504 ==
    (Occurred("upstream-timeout") /\ Emitted) =>
        /\ gw.status = 504
        /\ metrics.errors_total = gw.errors_before + 1
        /\ metrics.errors.error_type = "operation timed out"

\* The error outcomes of a request: the statuses the gateway itself answers
ErrorStatuses == {401, 429, 502}

\* C27: every error outcome of a request (401, 429, route miss, no healthy
\* upstream, upstream transport error, upstream timeout) increments
\* errors_total exactly once.
C27_EveryErrorCounted ==
    (Emitted /\ gw.status \in ErrorStatuses) =>
        metrics.errors_total = gw.errors_before + 1

\* The number of events e of the request in the stack
Count(e) == Cardinality({ n \in DOMAIN events : events[n] = e })

\* C26: each client request causes at most one server selection and at most
\* one upstream dispatch: after an upstream failure or timeout it is not sent
\* again.
C26_NoRetry ==
    /\ Count("route-match") <= 1
    /\ Count("upstream-dispatch") <= 1
    /\ started <= arrived

\* C26's case: the upstream call of a request failed and the request was
\* answered after its one dispatch
C26_Witness ==
    /\ Emitted
    /\ Occurred("upstream-error") \/ Occurred("upstream-timeout")
    /\ Count("upstream-dispatch") = 1
    /\ gw.status = 502


\* The path of the request in the stack matches no route
NoRoute == \A r \in DOMAIN routes : ~RuleMatches(routes[r].path, gw.path)

\* The backend of the first route the path matches
BackendOfRequest ==
    LET r == CHOOSE r \in DOMAIN routes :
                /\ RuleMatches(routes[r].path, gw.path)
                /\ \A q \in 1..(r - 1) : ~RuleMatches(routes[q].path, gw.path)
    IN  routes[r].backend

\* That backend has no server the proxy holds to be healthy
EmptyHealthySet ==
    /\ ~NoRoute
    /\ BackendOfRequest \in DOMAIN backend_states
    /\ \A k \in DOMAIN backend_states[BackendOfRequest].servers :
          ~backend_states[BackendOfRequest].servers[k].healthy

\* The steps of proxy_request and proxy_handler for the request in the stack
SelectionStep == gw.pc = "proxy" /\ req[1].pc = "idle" /\ req'[1].pc # "idle"
ReturnStep    == gw.pc = "proxy" /\ gw'.pc = "out"

\* C25: a request whose path matches no route, or whose backend has an empty
\* healthy set, is answered 502 and no upstream request is sent for it: its
\* selection ends the proxying without a server, and a request that ended so
\* is answered 502 with nothing dispatched.
C25_NoUpstream502 ==
    [][ /\ (SelectionStep /\ (NoRoute \/ EmptyHealthySet)) =>
              req'[1].pc = "done" /\ req'[1].server = 0
        /\ (ReturnStep /\ req[1].server = 0) =>
              /\ gw'.status = 502
              /\ gw'.outbound = <<>>
              /\ ~Occurred("upstream-dispatch") ]_vars

\* C25's case: a request for a backend whose servers have all been taken down
\* was answered 502 without a dispatch
C25_Witness ==
    /\ Emitted
    /\ EmptyHealthySet
    /\ BackendOfRequest = "b1"
    /\ gw.status = 502
    /\ ~Occurred("upstream-dispatch")
    /\ metrics.errors.error_type = "No healthy servers available"


\* The first comma-separated element of a value, and a value without the
\* blanks around it
FirstElement(v) ==
    LET commas == { n \in DOMAIN v : v[n] = "," }
    IN  IF commas = {} THEN v
        ELSE SubSeq(v, 1, (CHOOSE n \in commas : \A m \in commas : n <= m) - 1)

Trimmed(v) ==
    LET solid == { n \in DOMAIN v : v[n] # " " }
    IN  IF solid = {} THEN <<>>
        ELSE SubSeq(v, CHOOSE n \in solid : \A m \in solid : n <= m,
                       CHOOSE n \in solid : \A m \in solid : n >= m)

ApiKeyHeader    == gw.headers["X-API-Key"]
ForwardedHeader == gw.headers["X-Forwarded-For"]

\* The id check_rate_limit was called with for the request in the stack
ClientIdUsed == lim_log[Len(lim_log)].client

\* C28 as stated: the client id is "api_key:" + value when X-API-Key is
\* present; otherwise "ip:" + the trimmed first comma-separated element of
\* X-Forwarded-For when that header is present; otherwise "unknown".
C28_StatedClientId ==
    lim_log # <<>> =>
        ClientIdUsed =
            IF ApiKeyHeader # <<>> THEN <<"api_key:", <<ApiKeyHeader[1]>>>>
            ELSE IF ForwardedHeader # <<>>
            THEN <<"ip:", Trimmed(FirstElement(ForwardedHeader[1]))>>
            ELSE <<"unknown", <<>>>>

\* A header that is present with a value that is text (visible ASCII)
TextKey       == ApiKeyHeader # <<>> /\ ApiKeyHeader[1] # OpaqueKey
TextForwarded ==
    /\ ForwardedHeader # <<>>
    /\ \A n \in DOMAIN ForwardedHeader[1] : ForwardedHeader[1][n] # OpaqueByte

\* C28 amended: the client id is "api_key:" + value when X-API-Key is present
\* with a text value; otherwise "ip:" + the trimmed first comma-separated
\* element of X-Forwarded-For when that header is present with a text value;
\* otherwise "unknown".
C28_ClientId ==
    lim_log # <<>> =>
        ClientIdUsed =
            IF TextKey THEN <<"api_key:", <<ApiKeyHeader[1]>>>>
            ELSE IF TextForwarded
            THEN <<"ip:", Trimmed(FirstElement(ForwardedHeader[1]))>>
            ELSE <<"unknown", <<>>>>

\* C28's case: a request without an API key whose X-Forwarded-For value has a
\* blank before its first element and a comma after it
C28_Witness ==
    /\ lim_log # <<>>
    /\ ApiKeyHeader = <<>>
    /\ ForwardedHeader = << <<" ", "7", ",">> >>
    /\ ClientIdUsed = <<"ip:", <<"7">>>>


\* The secrets two gateways may differ in
Secrets == {"secret", "other", "your-jwt-secret-key"}

\* The configuration of a gateway that differs from this one in the secret only
WithSecret(s) == [Config EXCEPT !.auth.jwt_secret = s]

ConfigAnswered == Emitted /\ gw.path = ConfigPath /\ gw.status = 200

\* C30: the /admin/config payload does not depend on auth.jwt_secret: a
\* gateway whose configuration differs only in the secret returns the payload
\* this gateway returned (version, server host and port, route count,
\* rate-limit summary).
C30_ConfigPayloadIndependentOfSecret ==
    ConfigAnswered =>
        \A s \in Secrets :
            /\ gw.body = <<config_endpoint(WithSecret(s))>>
            /\ DOMAIN gw.body[1] = {"version", "server", "routes", "rate_limiting"}

\* C30's case: /admin/config was answered to a request that authenticated
\* against the configured secret
C30_Witness ==
    /\ ConfigAnswered
    /\ auth.enabled
    /\ HasValidBearer
    /\ gw.body # <<>>


Elements(list) == { list[n] : n \in DOMAIN list }

\* C31: has_permissions(required, held) is true iff every required
\* permission is an element of the held set; it is true for an empty required
\* list and insensitive to order and duplicates in held.
C31_PermissionsSubset ==
    perm.called =>
        /\ perm.result <=> Elements(perm.required) \subseteq Elements(perm.held)
        /\ perm.required = <<>> => perm.result
        /\ \A other \in PermissionLists :
              Elements(other) = Elements(perm.held)
                 => validate_permissions(perm.required, other) = perm.result

\* C31's case: two required permissions, held in the other order
C31_Witness ==
    /\ perm.called
    /\ perm.required = <<"read", "write">>
    /\ perm.held = <<"write", "read">>
    /\ perm.result


\* C32: for every route whose backend id is a key of the backend map,
\* dispatch looks the runtime state up by that same id and never fails because
\* the state cannot be found.
C32_DispatchFindsState ==
    \A i \in Slots :
        (req[i].route # 0 /\ routes[req[i].route].backend \in Backends) =>
            /\ req[i].error # "Backend state not found"
            /\ req[i].state # None => req[i].state = routes[req[i].route].backend


\* The round-robin selections on backend b logged so far
CursorSelections(b) ==
    { j \in DOMAIN sel_log : sel_log[j].kind = "select" /\ sel_log[j].backend = b }

\* The selections of W saw the same n healthy servers and drew n consecutive
\* cursor values
ConsecutiveRound(W) ==
    /\ W # {}
    /\ \A j, l \in W : sel_log[j].among = sel_log[l].among
    /\ \A j \in W : Len(sel_log[j].among) = Cardinality(W)
    /\ \E lo \in 0..CursorRequests :
          { sel_log[j].index : j \in W } = lo..(lo + Cardinality(W) - 1)

C33_CursorState ==
    \A b \in DOMAIN backend_states :
        LET S == CursorSelections(b)
        IN  /\ \A j, l \in S : j # l => sel_log[j].index # sel_log[l].index
            /\ backend_states[b].current_index = Cardinality(S)
            /\ \A W \in SUBSET S :
                  ConsecutiveRound(W) =>
                      Cardinality({ sel_log[j].server : j \in W }) = Cardinality(W)

C33_CursorStep ==
    \A b \in DOMAIN backend_states :
        backend_states'[b].current_index >= backend_states[b].current_index

\* C33: concurrent round-robin selections on a backend each obtain a distinct
\* cursor value; the cursor ends at its initial value 0 plus the number of
\* selections and never decreases; n selections that saw the same n healthy
\* servers and drew consecutive cursor values pick n different servers.
C33_Cursor == []C33_CursorState /\ [][C33_CursorStep]_vars

\* C33's case: three selections over the three healthy servers of b1, the
\* last two made by tasks that both still hold their pick
C33_Witness ==
    /\ Len(sel_log) = 3
    /\ \A j \in 1..3 : Len(sel_log[j].among) = 3
    /\ req[1].pc = "picked" /\ req[2].pc = "picked"
    /\ ConsecutiveRound({1, 2, 3})


\* The registry holds one record per configured backend and server
RegistryIsProduct ==
    /\ DOMAIN health_status = Backends
    /\ \A b \in Backends :
          /\ Len(health_status[b].servers) = Len(BackendConfig(b).servers)
          /\ \A k \in DOMAIN health_status[b].servers :
                health_status[b].servers[k].url = BackendConfig(b).servers[k]

\* A step of a request task: selection, connection count, upstream answer,
\* cancellation or completion
RequestStep == req' # req

\* A step that writes the result of the probe of server k of backend b
ProbeResultStep(b, k) ==
    /\ phase = "probing"
    /\ <<b, k>> \in pending
    /\ <<b, k>> \notin pending'

C34_RegistryStep ==
    /\ RequestStep => health_status' = health_status
    /\ \A b \in Backends : \A k \in 1..Len(BackendConfig(b).servers) :
          ProbeResultStep(b, k) =>
              /\ \A c \in Backends :
                    /\ health_status'[c].overall_status = health_status[c].overall_status
                    /\ \A j \in DOMAIN health_status[c].servers :
                          <<c, j>> # <<b, k>> =>
                              health_status'[c].servers[j] = health_status[c].servers[j]
              /\ health_status'[b].servers[k] # health_status[b].servers[k]

\* C34: the registry's set of records is fixed at construction to one record
\* per configured backend and server; no step of a request changes a record;
\* a probe result for one server changes that server's record and no other.
C34_RegistryFixed == []RegistryIsProduct /\ [][C34_RegistryStep]_vars

\* C34's case: the probe of server B of b1 has written its result while the
\* probe of A is still out and a request is with its upstream server
C34_Witness ==
    /\ health_status["b1"].servers[2].status = "Healthy"
    /\ health_status["b1"].servers[1].status = "Unknown"
    /\ <<"b1", 1>> \in pending
    /\ req[1].pc = "upstream"


\* The record of a server after the first n probe results of `log`
RECURSIVE AfterProbes(_, _, _)
AfterProbes(url, log, n) ==
    IF n = 0 THEN InitServerHealth(url)
    ELSE probe_update(AfterProbes(url, log, n - 1), log[n])

\* What the reader holds of a record once its copy is complete
ReaderCopy(url) ==
    [url |-> url, status |-> reader.status,
     consecutive_failures |-> reader.consecutive_failures,
     consecutive_successes |-> reader.consecutive_successes]

\* C35: probe completions within a tick, in any order and interleaved with a
\* reader, update each record atomically: a completed read of a record is a
\* value the record had after some number of whole probe results (no torn
\* read), and once no write is under way every record is the outcome of all
\* probe results received for it, one per round (no result lost).
C35_AtomicUpdates ==
    /\ writer.active => reader.stage # "status"
    /\ reader.stage = "done" =>
          LET p   == <<reader.backend, reader.server>>
              url == BackendConfig(p[1]).servers[p[2]]
          IN  \E n \in 0..Len(probe_log[p]) :
                  ReaderCopy(url) = AfterProbes(url, probe_log[p], n)
    /\ ~writer.active =>
          \A p \in ProbesOfTick :
              /\ ServerRecord(p) = AfterProbes(ServerRecord(p).url, probe_log[p],
                                               Len(probe_log[p]))
              /\ Len(probe_log[p]) = IF p \in pending THEN ticks - 1 ELSE ticks

\* C35's case: in the second round two results are in and written, the third
\* is being written, and a reader has completed a copy of a record that two
\* results have changed
C35_Witness ==
    /\ ticks = 2
    /\ pending = {}
    /\ writer.active
    /\ reader.stage = "done"
    /\ reader.consecutive_failures + reader.consecutive_successes = 2


\* C36: for a backend whose health check is disabled no probe is ever
\* issued, its server records stay Unknown with both counters 0, and its
\* overall status stays Unknown.
C36_DisabledStaysUnknown ==
    \A b \in Backends :
        ~BackendConfig(b).health_check.enabled =>
            /\ \A p \in pending : p[1] # b
            /\ \A k \in DOMAIN health_status[b].servers :
                  health_status[b].servers[k] = InitServerHealth(BackendConfig(b).servers[k])
            /\ health_status[b].overall_status = "Unknown"


\* The lines of the limiter's log about client c with result `result`
BucketLines(c, result) ==
    { j \in DOMAIN lim_log : lim_log[j].client = c /\ lim_log[j].result = result }

\* C37: when several concurrent requests of a client not seen before are
\* checked by the local limiter, exactly one bucket is created for the
\* client, every check draws from it, and at most burst of the checks made
\* at one instant are allowed.
C37_OneBucket ==
    \A c \in Clients :
        /\ Cardinality(BucketLines(c, "Created")) = IF c \in DOMAIN memory_limiters THEN 1 ELSE 0
        /\ \A j \in BucketLines(c, "Ok") \cup BucketLines(c, "Exceeded") :
              \E l \in BucketLines(c, "Created") : l < j
        /\ \A t \in 0..(BucketNow + 1) :
              Cardinality({ j \in BucketLines(c, "Ok") : lim_log[j].at = t })
                  <= quota_of(rate_limiting).max_burst

\* C37's case: with burst 1, two tasks had the unseen client's check under
\* way together at time 0; one bucket was made, one check was allowed and the
\* other refused
C37_Witness ==
    /\ rate_limiting.burst_size = 1
    /\ now = 0
    /\ {chk[1].pc, chk[2].pc} = {"Ok", "Exceeded"}
    /\ \E c \in Clients :
          /\ chk[1].client = c /\ chk[2].client = c
          /\ Cardinality(BucketLines(c, "Created")) = 1
          /\ Len(lim_log) = 3


\* The client of the request in the stack has been allowed a request before
AllowedBefore ==
    \E j \in 1..(arrived - 1) :
        /\ lim_log[j].client = extract_client_id(gw.headers)
        /\ lim_log[j].result = "Ok"

\* C38: with rate limiting enabled every request is checked by the limiter,
\* and consumes quota, before authentication: a request that reaches the auth
\* filter or the router, or is answered 401, has had its check, whatever its
\* path and credentials; the one cell of the burst goes to the client's first
\* request whether it is then refused 401, passes by a bypass path or goes to
\* an admin endpoint, and any later request of the client is answered 429.
C38_EveryRequestCounts ==
    /\ (Occurred("Auth") \/ Occurred("Router") \/ gw.status = 401) =>
          /\ Before("rate-decision", "Auth") \/ ~Occurred("Auth")
          /\ Occurred("rate-decision")
    /\ Occurred("rate-decision") =>
          /\ Len(lim_log) = arrived
          /\ lim_log[arrived].client = extract_client_id(gw.headers)
          /\ gw.limited = "Exceeded" <=> AllowedBefore
          /\ gw.status = 429 <=> AllowedBefore

\* C38's case: the first request was refused 401 or 405 (no handler has
\* drawn an id: the two ids drawn are the logging layer's) and the second, to
\* /health, an admin endpoint and a bypass path, is answered 429
C38_Witness ==
    /\ arrived = 2
    /\ uuids = 2
    /\ gw.path = HealthPath
    /\ gw.status = 429
    /\ lim_log[1].result = "Ok"
    /\ Emitted


\* The handler tasks that are counted and have no error recorded so far
CountedWithoutError ==
    { i \in DOMAIN handlers : handlers[i].counted /\ handlers[i].errors = 0 }

\* C39: in every reachable state, under any interleaving of concurrent
\* requests, errors_total is at most requests_total; an error is recorded
\* only for a request that was counted when it entered the proxy handler, and
\* at most once per request.
C39_ErrorsWithinRequests ==
    /\ metrics.errors_total <= metrics.requests_total
    /\ metrics.errors_total + Cardinality(CountedWithoutError) <= metrics.requests_total
    /\ \A i \in DOMAIN handlers :
          /\ handlers[i].errors <= 1
          /\ handlers[i].errors > 0 => handlers[i].counted
          /\ handlers[i].pc # "idle" => handlers[i].counted

\* C39's case: two requests in the handler together, both failed and both
\* recorded, the counters level at two
C39_Witness ==
    /\ handlers[1].pc = "recorded"
    /\ handlers[2].pc = "recorded"
    /\ metrics.errors_total = 2
    /\ metrics.requests_total = 2

====
